---- MODULE Spec2Model ----
(***************************************************************************)
(* Model of TruTopsResultParser                                            *)
(* (Scripts/Generacion_Lectura_Calculos/ReadBackCalculations_MultipleParts *)
(* .py): the extraction pipeline that turns a batch of calculation result  *)
(* documents into a list of CalculationSummary records.                    *)
(*                                                                         *)
(* Representation.                                                         *)
(*  - A text (an element's text, an attribute that the code splits or      *)
(*    searches) is a sequence of one-character strings.  None and "" are   *)
(*    both the empty sequence: the code only ever tests them with `not`    *)
(*    or replaces None by "".                                              *)
(*  - A Python float is an exact rational <<n, d>> with d > 0 in lowest    *)
(*    terms; binary rounding is not modelled.  The texts of the model hold *)
(*    digits, ".", ",", "-", ":", "x" and letters; exponents, "inf", "nan",*)
(*    "_" and white space inside numbers are outside the alphabet.         *)
(*  - An element that find() may return is [present, text]; find()         *)
(*    returning None is present = FALSE.  A document is the schema-shaped  *)
(*    record of the elements the parser queries, each path holding the     *)
(*    first match find() would return.                                     *)
(***************************************************************************)
EXTENDS Integers, Sequences, FiniteSets, TLC

VARIABLES file_paths, fi, pc, pi, summary, file_summaries, summaries

vars == <<file_paths, fi, pc, pi, summary, file_summaries, summaries>>

(***************************************************************************)
(* Exact rationals standing for Python floats.                             *)
(***************************************************************************)
Abs(x) == IF x < 0 THEN -x ELSE x

RECURSIVE GCD(_, _)
GCD(a, b) == IF b = 0 THEN a ELSE GCD(b, a % b)

Rat(n, d) ==
    LET g == GCD(Abs(n), d)
    IN  IF n = 0 THEN <<0, 1>> ELSE <<n \div g, d \div g>>

RZero == <<0, 1>>
RInt(n) == <<n, 1>>
RAdd(a, b) == Rat(a[1] * b[2] + b[1] * a[2], a[2] * b[2])
RSub(a, b) == Rat(a[1] * b[2] - b[1] * a[2], a[2] * b[2])
RMul(a, b) == Rat(a[1] * b[1], a[2] * b[2])
RDivInt(a, k) == Rat(a[1], a[2] * k)
RLt(a, b) == a[1] * b[2] < b[1] * a[2]
RMax(a, b) == IF RLt(a, b) THEN b ELSE a
RMin(a, b) == IF RLt(b, a) THEN b ELSE a
\* int(x): truncation toward zero
Trunc(a) == IF a[1] >= 0 THEN a[1] \div a[2] ELSE -((-a[1]) \div a[2])

(***************************************************************************)
(* Texts.                                                                  *)
(***************************************************************************)
Digits == <<"0", "1", "2", "3", "4", "5", "6", "7", "8", "9">>
UpperCase == <<"A", "B", "C", "D", "E", "F", "G", "H", "I", "J", "K", "L", "M",
               "N", "O", "P", "Q", "R", "S", "T", "U", "V", "W", "X", "Y", "Z">>
LowerCase == <<"a", "b", "c", "d", "e", "f", "g", "h", "i", "j", "k", "l", "m",
               "n", "o", "p", "q", "r", "s", "t", "u", "v", "w", "x", "y", "z">>

IsDigit(c) == \E i \in 1..10 : Digits[i] = c
DigitVal(c) == (CHOOSE i \in 1..10 : Digits[i] = c) - 1

\* str.lower()
LowerChar(c) ==
    IF \E i \in 1..26 : UpperCase[i] = c
    THEN LowerCase[CHOOSE i \in 1..26 : UpperCase[i] = c]
    ELSE c
Lower(s) == [i \in 1..Len(s) |-> LowerChar(s[i])]

\* sub in s
Contains(s, sub) ==
    \E i \in 0..(Len(s) - Len(sub)) :
        \A j \in 1..Len(sub) : s[i + j] = sub[j]

\* s.replace(a, b) for single characters
ReplaceChar(s, a, b) == [i \in 1..Len(s) |-> IF s[i] = a THEN b ELSE s[i]]

\* s.split(sep) for a single-character separator: the list of components
RECURSIVE Split(_, _)
Split(s, sep) ==
    IF \A i \in 1..Len(s) : s[i] # sep
    THEN <<s>>
    ELSE LET k == CHOOSE i \in 1..Len(s) :
                      s[i] = sep /\ \A j \in 1..(i - 1) : s[j] # sep
         IN  <<SubSeq(s, 1, k - 1)>> \o Split(SubSeq(s, k + 1, Len(s)), sep)

Count(s, c) == Cardinality({i \in 1..Len(s) : s[i] = c})

RECURSIVE DigitsValue(_)
DigitsValue(s) ==
    IF s = <<>> THEN 0
    ELSE 10 * DigitsValue(SubSeq(s, 1, Len(s) - 1)) + DigitVal(s[Len(s)])

RECURSIVE Pow10(_)
Pow10(k) == IF k = 0 THEN 1 ELSE 10 * Pow10(k - 1)

\* float(s): does the text denote a number ([+-] digits [. digits], at least
\* one digit), and which
FloatBody(s) ==
    IF s # <<>> /\ (s[1] = "-" \/ s[1] = "+") THEN Tail(s) ELSE s
IsFloatText(s) ==
    LET b == FloatBody(s)
    IN  /\ \A i \in 1..Len(b) : IsDigit(b[i]) \/ b[i] = "."
        /\ Count(b, ".") <= 1
        /\ \E i \in 1..Len(b) : IsDigit(b[i])
FloatOf(s) ==
    LET b == FloatBody(s)
        ds == SelectSeq(b, IsDigit)
        frac == IF Count(b, ".") = 0 THEN 0
                ELSE Len(b) - (CHOOSE i \in 1..Len(b) : b[i] = ".")
        mag == Rat(DigitsValue(ds), Pow10(frac))
    IN  IF s[1] = "-" THEN <<-mag[1], mag[2]>> ELSE mag

(***************************************************************************)
(* Elements.                                                               *)
(***************************************************************************)
Absent == [present |-> FALSE, text |-> <<>>]
El(t) == [present |-> TRUE, text |-> t]

ZeroTime == <<"0", "0", ":", "0", "0", ":", "0", "0">>

(***************************************************************************)
(* Scalar coercion: parse_time_string, parse_float_value,                  *)
(* time_string_to_hours.                                                   *)
(***************************************************************************)
parse_time_string(time_str) ==
    IF time_str = <<>> THEN ZeroTime
    ELSE IF Contains(time_str, <<":">>) THEN Split(time_str, ".")[1]
    ELSE ZeroTime

\* re.sub(r'[^\d.,\-]', '', text.replace(',', '.'))
IsKept(c) == IsDigit(c) \/ c = "." \/ c = "," \/ c = "-"
\* line 125 without text.replace(',', '.')
CleanedKeepComma(text) == SelectSeq(text, IsKept)
Cleaned(text) == SelectSeq(ReplaceChar(text, ",", "."), IsKept)

parse_float_value(element, default) ==
    IF ~element.present THEN default
    ELSE IF element.text = <<>> THEN default
    ELSE LET cleaned == Cleaned(element.text)
         IN  IF cleaned = <<>> THEN default
             ELSE IF IsFloatText(cleaned) THEN FloatOf(cleaned)
             ELSE default

\* lines 130-144 reading a string of two components as minutes and seconds
time_string_to_hours_lenient(time_str) ==
    IF time_str = <<>> \/ time_str = ZeroTime THEN RZero
    ELSE LET parts == Split(time_str, ":")
             pad == IF Len(parts) = 2 THEN <<<<"0">>>> \o parts ELSE parts
         IN  IF Len(pad) >= 3
             THEN LET sec == Split(pad[3], ".")[1]
                  IN  IF IsFloatText(pad[1]) /\ IsFloatText(pad[2])
                         /\ IsFloatText(sec)
                      THEN RAdd(RAdd(FloatOf(pad[1]),
                                     RDivInt(FloatOf(pad[2]), 60)),
                                RDivInt(FloatOf(sec), 3600))
                      ELSE RZero
             ELSE RZero

time_string_to_hours(time_str) ==
    IF time_str = <<>> \/ time_str = ZeroTime THEN RZero
    ELSE LET parts == Split(time_str, ":")
         IN  IF Len(parts) >= 3
             THEN LET sec == Split(parts[3], ".")[1]
                  IN  IF IsFloatText(parts[1]) /\ IsFloatText(parts[2])
                         /\ IsFloatText(sec)
                      THEN RAdd(RAdd(FloatOf(parts[1]),
                                     RDivInt(FloatOf(parts[2]), 60)),
                                RDivInt(FloatOf(sec), 3600))
                      ELSE RZero
             ELSE RZero

(***************************************************************************)
(* CalculationSummary: the dataclass and its field defaults.               *)
(***************************************************************************)
EUR == <<"E", "U", "R">>

CalculationSummary ==
    [filename |-> "", part_id |-> "", article_no |-> <<>>,
     article_description |-> <<>>,
     part_dimensions_x |-> RZero, part_dimensions_y |-> RZero,
     part_weight |-> RZero, part_area |-> RZero, cutting_length |-> RZero,
     material_name |-> <<>>, material_thickness |-> RZero,
     material_cost_per_kg |-> RZero,
     machine_name |-> <<>>, machine_hour_cost |-> RZero,
     operator_hour_cost |-> RZero, overhead_rate |-> RZero,
     laser_time |-> ZeroTime, positioning_time |-> ZeroTime,
     setup_time |-> ZeroTime, pallet_changing_time |-> ZeroTime,
     total_processing_time |-> ZeroTime,
     power_consumption_kwh |-> RZero, electricity_cost_per_kwh |-> RZero,
     electricity_cost_total |-> RZero,
     compressed_air_consumption |-> RZero,
     compressed_air_cost_per_nm3 |-> RZero,
     compressed_air_cost_total |-> RZero,
     oxygen_consumption |-> RZero, oxygen_cost_per_nm3 |-> RZero,
     oxygen_cost_total |-> RZero,
     nitrogen_consumption |-> RZero, nitrogen_cost_per_nm3 |-> RZero,
     nitrogen_cost_total |-> RZero,
     argon_consumption |-> RZero, argon_cost_per_nm3 |-> RZero,
     argon_cost_total |-> RZero,
     sheet_dimensions_x |-> RZero, sheet_dimensions_y |-> RZero,
     parts_per_sheet |-> 0, material_utilization |-> RZero,
     waste_percentage |-> RZero, material_consumption |-> RZero,
     net_cost_per_piece |-> RZero, gross_cost_per_piece |-> RZero,
     material_cost_per_piece |-> RZero, processing_cost_per_piece |-> RZero,
     cost_qty_1 |-> RZero, cost_qty_10 |-> RZero, cost_qty_100 |-> RZero,
     cost_qty_500 |-> RZero,
     currency |-> EUR, calculation_date |-> <<>>, author_version |-> <<>>]

\* `x = parse_float_value(elem)` under `if elem is not None`
FloatIfPresent(element, old) ==
    IF element.present THEN parse_float_value(element, RZero) ELSE old
\* `x = elem.text or ""` under `if elem is not None`
TextIfPresent(element, old) ==
    IF element.present THEN element.text ELSE old
\* `x = self.parse_time_string(elem.text)` under `if elem is not None`
TimeIfPresent(element, old) ==
    IF element.present THEN parse_time_string(element.text) ELSE old

(***************************************************************************)
(* extract_scale_prices: the dict, as a function from the quantity keys    *)
(* that were stored to the cost stored last under each.                    *)
(***************************************************************************)
EntryStored(entry) == entry.Quantity.present /\ entry.NetcostsAPiece.present
EntryQty(entry) == Trunc(parse_float_value(entry.Quantity, RZero))
EntryCost(entry) == parse_float_value(entry.NetcostsAPiece, RZero)

ScaleKeys(entries) ==
    {EntryQty(entries[i]) : i \in {j \in 1..Len(entries) : EntryStored(entries[j])}}

extract_scale_prices(entries) ==
    [q \in ScaleKeys(entries) |->
        LET last == CHOOSE i \in 1..Len(entries) :
                        /\ EntryStored(entries[i]) /\ EntryQty(entries[i]) = q
                        /\ \A j \in (i + 1)..Len(entries) :
                               ~(EntryStored(entries[j]) /\ EntryQty(entries[j]) = q)
        IN  EntryCost(entries[last])]

\* dict.get(key, default)
DictGet(d, key, default) == IF key \in DOMAIN d THEN d[key] ELSE default

(***************************************************************************)
(* calculate_energy_and_gas_consumption(root, part, summary)               *)
(***************************************************************************)
Stainless == <<"s", "t", "a", "i", "n", "l", "e", "s", "s">>
Alloy143 == <<"1", ".", "4", "3">>
Carbon == <<"c", "a", "r", "b", "o", "n">>

\* lines 168-189: the unit costs of the operator section
OperatorCosts(root, s) ==
    IF root.Operator.present
    THEN [s EXCEPT
            !.electricity_cost_per_kwh =
                FloatIfPresent(root.Operator.ElectricEnergyCosts, @),
            !.compressed_air_cost_per_nm3 =
                FloatIfPresent(root.Operator.CompressedAir, @),
            !.oxygen_cost_per_nm3 = FloatIfPresent(root.Operator.Oxygen, @),
            !.nitrogen_cost_per_nm3 = FloatIfPresent(root.Operator.Nitrogen, @),
            !.argon_cost_per_nm3 = FloatIfPresent(root.Operator.Argon, @)]
    ELSE s

\* line 210 taking the rated power at 100% for the mean
AvgPowerPeak(max_power_kw, min_power_kw) == max_power_kw

\* line 210
AvgPower(max_power_kw, min_power_kw) ==
    RDivInt(RAdd(max_power_kw, min_power_kw), 2)

\* lines 191-212 writing the duration text it read back into the record
PowerConsumptionStoresTime(part, s) ==
    IF /\ part.LaserMachine.present
       /\ part.LaserMachine.Power100Percent.present
       /\ part.LaserMachine.Power1Percent.present
       /\ part.WorkingStep.present
       /\ part.WorkingStep.TimeData.present
       /\ part.WorkingStep.TimeData.LaserTime.present
    THEN LET max_power_kw ==
                 parse_float_value(part.LaserMachine.Power100Percent, RZero)
             min_power_kw ==
                 parse_float_value(part.LaserMachine.Power1Percent, RZero)
             txt == part.WorkingStep.TimeData.LaserTime.text
             laser_time_str == IF txt = <<>> THEN ZeroTime ELSE txt
             laser_hours == time_string_to_hours(laser_time_str)
             kwh == RMul(AvgPower(max_power_kw, min_power_kw), laser_hours)
         IN  [s EXCEPT !.power_consumption_kwh = kwh,
                       !.electricity_cost_total =
                           RMul(kwh, s.electricity_cost_per_kwh),
                       !.laser_time = laser_time_str]
    ELSE s

\* lines 191-212 without the test of line 197 for the rating at 1%
PowerConsumptionOneRating(part, s) ==
    IF /\ part.LaserMachine.present
       /\ part.LaserMachine.Power100Percent.present
       /\ part.WorkingStep.present
       /\ part.WorkingStep.TimeData.present
       /\ part.WorkingStep.TimeData.LaserTime.present
    THEN LET max_power_kw ==
                 parse_float_value(part.LaserMachine.Power100Percent, RZero)
             min_power_kw ==
                 parse_float_value(part.LaserMachine.Power1Percent, RZero)
             txt == part.WorkingStep.TimeData.LaserTime.text
             laser_time_str == IF txt = <<>> THEN ZeroTime ELSE txt
             laser_hours == time_string_to_hours(laser_time_str)
             kwh == RMul(AvgPower(max_power_kw, min_power_kw), laser_hours)
         IN  [s EXCEPT !.power_consumption_kwh = kwh,
                       !.electricity_cost_total =
                           RMul(kwh, s.electricity_cost_per_kwh)]
    ELSE s

\* lines 191-212: the electricity estimate, from the LaserTime element's own text
PowerConsumption(part, s) ==
    IF /\ part.LaserMachine.present
       /\ part.LaserMachine.Power100Percent.present
       /\ part.LaserMachine.Power1Percent.present
       /\ part.WorkingStep.present
       /\ part.WorkingStep.TimeData.present
       /\ part.WorkingStep.TimeData.LaserTime.present
    THEN LET max_power_kw ==
                 parse_float_value(part.LaserMachine.Power100Percent, RZero)
             min_power_kw ==
                 parse_float_value(part.LaserMachine.Power1Percent, RZero)
             txt == part.WorkingStep.TimeData.LaserTime.text
             laser_time_str == IF txt = <<>> THEN ZeroTime ELSE txt
             laser_hours == time_string_to_hours(laser_time_str)
             kwh == RMul(AvgPower(max_power_kw, min_power_kw), laser_hours)
         IN  [s EXCEPT !.power_consumption_kwh = kwh,
                       !.electricity_cost_total =
                           RMul(kwh, s.electricity_cost_per_kwh)]
    ELSE s

\* line 224 and line 228
IsStainless(material_name) ==
    Contains(Lower(material_name), Stainless) \/ Contains(material_name, Alloy143)
\* line 228 with <= for <
IsCarbonOrThinInclusive(material_name, material_thickness) ==
    Contains(Lower(material_name), Carbon) \/ ~RLt(RInt(3), material_thickness)
IsCarbonOrThin(material_name, material_thickness) ==
    Contains(Lower(material_name), Carbon) \/ RLt(material_thickness, RInt(3))

\* line 225 without max() and min()
NitrogenRateUnclamped(material_thickness) == RMul(material_thickness, <<3, 10>>)

\* line 225 and line 229
NitrogenRate(material_thickness) ==
    RMax(<<1, 2>>, RMin(RInt(3), RMul(material_thickness, <<3, 10>>)))
OxygenRate(material_thickness) ==
    RMax(<<3, 10>>, RMin(RInt(2), RMul(material_thickness, <<1, 5>>)))

\* lines 222-231 with `if` for the `elif` of line 228
AssistGasIndependent(s, laser_hours) ==
    LET n == RMul(laser_hours, NitrogenRate(s.material_thickness))
        o == RMul(laser_hours, OxygenRate(s.material_thickness))
        s1 == IF IsStainless(s.material_name)
              THEN [s EXCEPT !.nitrogen_consumption = n,
                             !.nitrogen_cost_total = RMul(n, s.nitrogen_cost_per_nm3)]
              ELSE s
    IN  IF IsCarbonOrThin(s.material_name, s.material_thickness)
        THEN [s1 EXCEPT !.oxygen_consumption = o,
                        !.oxygen_cost_total = RMul(o, s.oxygen_cost_per_nm3)]
        ELSE s1

\* lines 222-231: the cutting-assist gas, chosen by the material
AssistGas(s, laser_hours) ==
    IF IsStainless(s.material_name)
    THEN LET n == RMul(laser_hours, NitrogenRate(s.material_thickness))
         IN  [s EXCEPT !.nitrogen_consumption = n,
                       !.nitrogen_cost_total = RMul(n, s.nitrogen_cost_per_nm3)]
    ELSE IF IsCarbonOrThin(s.material_name, s.material_thickness)
    THEN LET o == RMul(laser_hours, OxygenRate(s.material_thickness))
         IN  [s EXCEPT !.oxygen_consumption = o,
                       !.oxygen_cost_total = RMul(o, s.oxygen_cost_per_nm3)]
    ELSE s

\* lines 214-231 without the test of line 218
GasConsumptionUnguarded(s) ==
    IF s.laser_time # <<>> /\ s.laser_time # ZeroTime
    THEN LET laser_hours == time_string_to_hours(s.laser_time)
             air == RMul(laser_hours, RInt(10))
         IN  AssistGas(
                 [s EXCEPT !.compressed_air_consumption = air,
                           !.compressed_air_cost_total =
                               RMul(air, s.compressed_air_cost_per_nm3)],
                 laser_hours)
    ELSE s

\* lines 214-231: the gas estimates, from the record's laser_time
GasConsumption(s) ==
    IF s.laser_time # <<>> /\ s.laser_time # ZeroTime
    THEN LET laser_hours == time_string_to_hours(s.laser_time)
         IN  IF RLt(RZero, laser_hours)
             THEN LET air == RMul(laser_hours, RInt(10))
                  IN  AssistGas(
                          [s EXCEPT !.compressed_air_consumption = air,
                                    !.compressed_air_cost_total =
                                        RMul(air, s.compressed_air_cost_per_nm3)],
                          laser_hours)
             ELSE s
    ELSE s

\* lines 165-231 with the electricity estimate made only when the operator
\* section gives an electricity unit cost
calculate_energy_and_gas_consumption_priced(root, part, s) ==
    IF root.Operator.present /\ root.Operator.ElectricEnergyCosts.present
    THEN GasConsumption(PowerConsumption(part, OperatorCosts(root, s)))
    ELSE GasConsumption(OperatorCosts(root, s))

\* lines 165-231 returning at once for a part without LaserMachine
calculate_energy_and_gas_consumption_laser_only(root, part, s) ==
    IF part.LaserMachine.present
    THEN GasConsumption(PowerConsumption(part, OperatorCosts(root, s)))
    ELSE s

calculate_energy_and_gas_consumption(root, part, s) ==
    GasConsumption(PowerConsumption(part, OperatorCosts(root, s)))

(***************************************************************************)
(* parse_single_part(root, part, filename), in the three stretches the     *)
(* code runs in order: the part's own fields (lines 235-374), the derived  *)
(* metrics (line 377), the nesting fields of the document (lines 379-406). *)
(***************************************************************************)
\* lines 241-253: calculation date, author version, currency
RootHeader(root, s) ==
    [s EXCEPT
        !.calculation_date = TextIfPresent(root.datetime, @),
        !.author_version =
            IF root.author.present THEN root.author.authorversion ELSE @,
        !.currency =
            IF root.Options.present
            THEN (IF root.Options.BaseCurrency.present
                  THEN root.Options.BaseCurrency.text ELSE EUR)
            ELSE @]

\* lines 255-278: article, material, material cost
ArticleAndMaterial(part, s) ==
    [s EXCEPT
        !.article_no = TextIfPresent(part.ArticleNo, @),
        !.article_description = TextIfPresent(part.ArticleDescription, @),
        !.material_name =
            IF part.Material.present
            THEN TextIfPresent(part.Material.MaterialName, @) ELSE @,
        !.material_thickness =
            IF part.Material.present
            THEN FloatIfPresent(part.Material.MaterialThickness, @) ELSE @,
        !.material_cost_per_kg = FloatIfPresent(part.BasicMaterialGroupCosts, @)]

\* lines 280-301: PartInformation
PartInfo(part, s) ==
    IF part.PartInformation.present
    THEN [s EXCEPT
            !.part_dimensions_x = FloatIfPresent(part.PartInformation.SizeX, @),
            !.part_dimensions_y = FloatIfPresent(part.PartInformation.SizeY, @),
            !.part_weight = FloatIfPresent(part.PartInformation.PartWeight, @),
            !.part_area = FloatIfPresent(part.PartInformation.PartArea, @),
            !.cutting_length =
                FloatIfPresent(part.PartInformation.CuttingLength, @)]
    ELSE s

\* lines 303-312 without the per-dimension zero tests of lines 309 and 311
DimensionFallbackBoth(part, s) ==
    IF (s.part_dimensions_x = RZero \/ s.part_dimensions_y = RZero)
       /\ part.Contour.present
    THEN [s EXCEPT
            !.part_dimensions_x =
                IF part.Contour.parameter_3.present
                THEN parse_float_value(part.Contour.parameter_3, RZero) ELSE @,
            !.part_dimensions_y =
                IF part.Contour.parameter_4.present
                THEN parse_float_value(part.Contour.parameter_4, RZero) ELSE @]
    ELSE s

\* lines 303-312: the ApproxGeometry contour fallback of the two dimensions
DimensionFallback(part, s) ==
    IF (s.part_dimensions_x = RZero \/ s.part_dimensions_y = RZero)
       /\ part.Contour.present
    THEN [s EXCEPT
            !.part_dimensions_x =
                IF part.Contour.parameter_3.present /\ s.part_dimensions_x = RZero
                THEN parse_float_value(part.Contour.parameter_3, RZero) ELSE @,
            !.part_dimensions_y =
                IF part.Contour.parameter_4.present /\ s.part_dimensions_y = RZero
                THEN parse_float_value(part.Contour.parameter_4, RZero) ELSE @]
    ELSE s

\* lines 314-356: the first working step: machine, rates, durations
WorkingStepInfo(part, s) ==
    IF part.WorkingStep.present
    THEN LET ws == part.WorkingStep
             wp == ws.WorkPlaceData
             td == ws.TimeData
         IN  [s EXCEPT
                !.machine_name = TextIfPresent(ws.WorkStepName, @),
                !.machine_hour_cost =
                    IF wp.present THEN FloatIfPresent(wp.MachineHourCosts, @) ELSE @,
                !.operator_hour_cost =
                    IF wp.present THEN FloatIfPresent(wp.HourlyRate, @) ELSE @,
                !.overhead_rate =
                    IF wp.present THEN FloatIfPresent(wp.OverheadRate, @) ELSE @,
                !.laser_time =
                    IF td.present THEN TimeIfPresent(td.LaserTime, @) ELSE @,
                !.positioning_time =
                    IF td.present THEN TimeIfPresent(td.PositioningTime, @) ELSE @,
                !.setup_time =
                    IF td.present THEN TimeIfPresent(td.SetupTime, @) ELSE @,
                !.pallet_changing_time =
                    IF td.present THEN TimeIfPresent(td.PalletChangingTime, @) ELSE @,
                !.total_processing_time =
                    TimeIfPresent(ws.TargetProcessingTime, @)]
    ELSE s

\* lines 358-367: SalesPrices/OrderPrice
CostInfo(part, s) ==
    IF part.OrderPrice.present
    THEN [s EXCEPT
            !.net_cost_per_piece =
                FloatIfPresent(part.OrderPrice.NetcostsAPiece, @),
            !.gross_cost_per_piece =
                FloatIfPresent(part.OrderPrice.GrosscostsAPiece, @)]
    ELSE s

\* lines 369-374 with the net cost per piece always in the quantity-1 slot
ScalePricesNetCostFirst(part, s) ==
    LET scale_prices == extract_scale_prices(part.ScalePriceEntries)
    IN  [s EXCEPT
            !.cost_qty_1 = s.net_cost_per_piece,
            !.cost_qty_10 = DictGet(scale_prices, 10, RZero),
            !.cost_qty_100 = DictGet(scale_prices, 100, RZero),
            !.cost_qty_500 = DictGet(scale_prices, 500, RZero)]

\* lines 369-374: the four quantity breakpoints
ScalePrices(part, s) ==
    LET scale_prices == extract_scale_prices(part.ScalePriceEntries)
    IN  [s EXCEPT
            !.cost_qty_1 = DictGet(scale_prices, 1, s.net_cost_per_piece),
            !.cost_qty_10 = DictGet(scale_prices, 10, RZero),
            !.cost_qty_100 = DictGet(scale_prices, 100, RZero),
            !.cost_qty_500 = DictGet(scale_prices, 500, RZero)]

\* lines 235-374 counting the positions of the nesting allocation (line 395)
\* among the part's own fields
AssemblePartWithPositions(root, part, filename) ==
    LET s == ScalePrices(part,
               CostInfo(part,
                 WorkingStepInfo(part,
                   DimensionFallback(part,
                     PartInfo(part,
                       ArticleAndMaterial(part,
                         RootHeader(root,
                           [CalculationSummary EXCEPT !.filename = filename,
                                                      !.part_id = part.ID])))))))
    IN  IF root.nesting.present /\ root.nesting.allocation.present
        THEN [s EXCEPT !.parts_per_sheet = root.nesting.allocation.pos]
        ELSE s

\* lines 235-374
AssemblePart(root, part, filename) ==
    ScalePrices(part,
      CostInfo(part,
        WorkingStepInfo(part,
          DimensionFallback(part,
            PartInfo(part,
              ArticleAndMaterial(part,
                RootHeader(root,
                  [CalculationSummary EXCEPT !.filename = filename,
                                             !.part_id = part.ID])))))))

\* lines 384-392 reading the second and the third component of the sheet-id
\* where the code reads the last two
SheetDimensionsFixedPlaces(sheet_id, s) ==
    IF Contains(sheet_id, <<"x">>)
    THEN LET parts == Split(sheet_id, "x")
             n == Len(parts)
         IN  IF n >= 3
             THEN (IF ~IsFloatText(parts[2]) THEN s
                   ELSE IF ~IsFloatText(parts[3])
                   THEN [s EXCEPT !.sheet_dimensions_x = FloatOf(parts[2])]
                   ELSE [s EXCEPT !.sheet_dimensions_x = FloatOf(parts[2]),
                                  !.sheet_dimensions_y = FloatOf(parts[3])])
             ELSE s
    ELSE s

\* lines 384-392: float() of the last two components of the sheet-id
SheetDimensions(sheet_id, s) ==
    IF Contains(sheet_id, <<"x">>)
    THEN LET parts == Split(sheet_id, "x")
             n == Len(parts)
         IN  IF n >= 3
             THEN (IF ~IsFloatText(parts[n - 1]) THEN s
                   ELSE IF ~IsFloatText(parts[n])
                   THEN [s EXCEPT !.sheet_dimensions_x = FloatOf(parts[n - 1])]
                   ELSE [s EXCEPT !.sheet_dimensions_x = FloatOf(parts[n - 1]),
                                  !.sheet_dimensions_y = FloatOf(parts[n])])
             ELSE s
    ELSE s

\* lines 403-406 with the utilization computed only from a waste other than 0
NestingInfoSkipsZeroWaste(root, s) ==
    LET s1 == IF root.nesting.present /\ root.nesting.allocation.present
              THEN [SheetDimensions(root.nesting.allocation.sheet_id, s)
                        EXCEPT !.parts_per_sheet = root.nesting.allocation.pos]
              ELSE s
        s2 == IF root.sheetData.present
              THEN [s1 EXCEPT !.material_consumption =
                         FloatIfPresent(root.sheetData.materialConsumption, @)]
              ELSE s1
        w == FloatIfPresent(root.waste, s2.waste_percentage)
    IN  IF w # RZero
        THEN [s2 EXCEPT !.waste_percentage = w,
                        !.material_utilization = RSub(RInt(100), w)]
        ELSE s2

\* lines 403-406 with the utilization computed outside the `if` of line 404
NestingInfoAlwaysUtilization(root, s) ==
    LET s1 == IF root.nesting.present /\ root.nesting.allocation.present
              THEN [SheetDimensions(root.nesting.allocation.sheet_id, s)
                        EXCEPT !.parts_per_sheet = root.nesting.allocation.pos]
              ELSE s
        s2 == IF root.sheetData.present
              THEN [s1 EXCEPT !.material_consumption =
                         FloatIfPresent(root.sheetData.materialConsumption, @)]
              ELSE s1
        w == FloatIfPresent(root.waste, s2.waste_percentage)
    IN  [s2 EXCEPT !.waste_percentage = w,
                   !.material_utilization = RSub(RInt(100), w)]

\* lines 379-406: nesting allocation, material consumption, waste
NestingInfo(root, s) ==
    LET s1 == IF root.nesting.present /\ root.nesting.allocation.present
              THEN [SheetDimensions(root.nesting.allocation.sheet_id, s)
                        EXCEPT !.parts_per_sheet = root.nesting.allocation.pos]
              ELSE s
        s2 == IF root.sheetData.present
              THEN [s1 EXCEPT !.material_consumption =
                         FloatIfPresent(root.sheetData.materialConsumption, @)]
              ELSE s1
    IN  IF root.waste.present
        THEN LET w == parse_float_value(root.waste, RZero)
             IN  [s2 EXCEPT !.waste_percentage = w,
                            !.material_utilization = RSub(RInt(100), w)]
        ELSE s2

parse_single_part(root, part, filename) ==
    NestingInfo(root,
        calculate_energy_and_gas_consumption(root, part,
            AssemblePart(root, part, filename)))

(***************************************************************************)
(* parse_calculation_file and parse_multiple_files as functions of the     *)
(* documents.  The actions below run the same code one loop turn at a time.*)
(***************************************************************************)
OrderNames == {<<"o", "r", "d", "e", "r">>, <<"p", "e", "d", "i", "d", "o">>,
               <<"a", "u", "f", "t", "r", "a", "g">>}

\* line 420: root.findall(".//Part[@type='sheetmetalpart']")
IsSheetMetalPart(part) == part.type = "sheetmetalpart"
SheetMetalParts(root) == SelectSeq(root.parts, IsSheetMetalPart)

\* the comparison of line 428 without .lower()
IsOrderPartCaseSensitive(part) ==
    part.ArticleNo.present /\ part.ArticleNo.text \in OrderNames

\* lines 424-429: the article number names the order
IsOrderPart(part) ==
    part.ArticleNo.present /\ Lower(part.ArticleNo.text) \in OrderNames

\* the comparison of line 433 with the marker in lower case
HasNoTechnologyLowerCase(part) == part.ProcessingTechnology = "none"

\* lines 432-434: the root marker
HasNoTechnology(part) == part.ProcessingTechnology = "NONE"

\* lines 423-434: the part is skipped before it is parsed
IsSkipped(part) == IsOrderPart(part) \/ HasNoTechnology(part)

\* line 440 with >= for >
HasUsefulDataOrZeroCost(s) ==
    s.article_no # <<>> \/ ~RLt(s.net_cost_per_piece, RZero)

\* line 440: the record has some useful data
HasUsefulData(s) == s.article_no # <<>> \/ RLt(RZero, s.net_cost_per_piece)

\* line 441: summaries.append(summary)
AppendSummary(list, s) == Append(list, s)

\* line 456 adding the file's records in front
ExtendSummariesInFront(list, more) == more \o list

\* line 456: summaries.extend(file_summaries)
ExtendSummaries(list, more) == list \o more

\* lines 412-447, the loop over the parts from part i on
RECURSIVE PartRecords(_, _, _)
PartRecords(root, parts, i) ==
    IF i > Len(parts) THEN <<>>
    ELSE IF IsSkipped(parts[i]) THEN PartRecords(root, parts, i + 1)
    ELSE LET s == parse_single_part(root, parts[i], root.name)
         IN  IF HasUsefulData(s)
             THEN <<s>> \o PartRecords(root, parts, i + 1)
             ELSE PartRecords(root, parts, i + 1)

parse_calculation_file(root) ==
    IF ~root.wellformed THEN <<>>
    ELSE PartRecords(root, SheetMetalParts(root), 1)

\* lines 449-460
RECURSIVE parse_multiple_files(_)
parse_multiple_files(paths) ==
    IF paths = <<>> THEN <<>>
    ELSE (IF Head(paths).exists THEN parse_calculation_file(Head(paths)) ELSE <<>>)
         \o parse_multiple_files(Tail(paths))

(***************************************************************************)
(* The batch run: parse_multiple_files(file_paths), one loop turn or one   *)
(* stretch of parse_single_part per step.                                  *)
(***************************************************************************)
root == file_paths[fi]
parts == SheetMetalParts(root)
part == parts[pi]

\* line 454, else branch: the path does not exist
FileNotFound ==
    /\ pc = "files" /\ fi <= Len(file_paths)
    /\ ~root.exists
    /\ fi' = fi + 1
    /\ UNCHANGED <<file_paths, pc, pi, summary, file_summaries, summaries>>

\* lines 413-447 without the try: the error of ET.parse ends the batch
ParseErrorPropagates ==
    /\ pc = "files" /\ fi <= Len(file_paths)
    /\ root.exists /\ ~root.wellformed
    /\ summaries' = <<>>
    /\ pc' = "done"
    /\ UNCHANGED <<file_paths, fi, pi, summary, file_summaries>>

\* lines 413, 445-447: ET.parse raises, the file yields []
ParseError ==
    /\ pc = "files" /\ fi <= Len(file_paths)
    /\ root.exists /\ ~root.wellformed
    /\ summaries' = ExtendSummaries(summaries, <<>>)
    /\ fi' = fi + 1
    /\ UNCHANGED <<file_paths, pc, pi, summary, file_summaries>>

\* lines 413-420: the document is parsed and its parts are found
OpenFile ==
    /\ pc = "files" /\ fi <= Len(file_paths)
    /\ root.exists /\ root.wellformed
    /\ pc' = "parts" /\ pi' = 1 /\ file_summaries' = <<>>
    /\ UNCHANGED <<file_paths, fi, summary, summaries>>

\* lines 422-434: an order part or a root part is passed over
SkipPart ==
    /\ pc = "parts" /\ pi <= Len(parts)
    /\ IsSkipped(part)
    /\ pi' = pi + 1
    /\ UNCHANGED <<file_paths, fi, pc, summary, file_summaries, summaries>>

\* line 437, lines 235-374
Assemble ==
    /\ pc = "parts" /\ pi <= Len(parts)
    /\ ~IsSkipped(part)
    /\ summary' = AssemblePart(root, part, root.name)
    /\ pc' = "assembled"
    /\ UNCHANGED <<file_paths, fi, pi, file_summaries, summaries>>

\* line 377
Derive ==
    /\ pc = "assembled"
    /\ summary' = calculate_energy_and_gas_consumption(root, part, summary)
    /\ pc' = "derived"
    /\ UNCHANGED <<file_paths, fi, pi, file_summaries, summaries>>

\* lines 379-408
Nesting ==
    /\ pc = "derived"
    /\ summary' = NestingInfo(root, summary)
    /\ pc' = "complete"
    /\ UNCHANGED <<file_paths, fi, pi, file_summaries, summaries>>

\* lines 440-441: the record is kept
EmitPart ==
    /\ pc = "complete"
    /\ HasUsefulData(summary)
    /\ file_summaries' = AppendSummary(file_summaries, summary)
    /\ pi' = pi + 1 /\ pc' = "parts"
    /\ UNCHANGED <<file_paths, fi, summary, summaries>>

\* line 440, condition false, with `break` where the code goes on to the
\* next part
DropPartStops ==
    /\ pc = "complete"
    /\ ~HasUsefulData(summary)
    /\ pi' = Len(parts) + 1 /\ pc' = "parts"
    /\ UNCHANGED <<file_paths, fi, summary, file_summaries, summaries>>

\* line 440, condition false: the record is dropped
DropPart ==
    /\ pc = "complete"
    /\ ~HasUsefulData(summary)
    /\ pi' = pi + 1 /\ pc' = "parts"
    /\ UNCHANGED <<file_paths, fi, summary, file_summaries, summaries>>

\* lines 443, 455-456: the file's list is returned and added to the batch's
CloseFile ==
    /\ pc = "parts" /\ pi > Len(parts)
    /\ summaries' = ExtendSummaries(summaries, file_summaries)
    /\ fi' = fi + 1 /\ pc' = "files"
    /\ UNCHANGED <<file_paths, pi, summary, file_summaries>>

\* line 460
Return ==
    /\ pc = "files" /\ fi > Len(file_paths)
    /\ pc' = "done"
    /\ UNCHANGED <<file_paths, fi, pi, summary, file_summaries, summaries>>

Next ==
    \/ FileNotFound \/ ParseError \/ OpenFile
    \/ SkipPart \/ Assemble \/ Derive \/ Nesting \/ EmitPart \/ DropPart
    \/ CloseFile \/ Return

(***************************************************************************)
(* The documents the runs are made of.                                     *)
(***************************************************************************)
MaxFiles == 3
MaxParts == 3
MaxEntries == 2

SeqsUpTo(S, n) == UNION {[1..k -> S] : k \in 0..n}

\* The one-part document of the specification's end-to-end scenario.
BasePart ==
    [type |-> "sheetmetalpart", ProcessingTechnology |-> "", ID |-> "1",
     ArticleNo |-> El(<<"P", "-", "0", "0", "1">>),
     ArticleDescription |-> El(<<"B", "r", "a", "c", "k", "e", "t">>),
     Material |-> [present |-> TRUE,
                   MaterialName |-> El(<<"1", ".", "4", "3", "0", "1", "-", "2", "0">>),
                   MaterialThickness |-> El(<<"2", ".", "0">>)],
     BasicMaterialGroupCosts |-> El(<<"1", ",", "8", "5">>),
     PartInformation |-> [present |-> TRUE,
                          SizeX |-> El(<<"1", "0", "0">>),
                          SizeY |-> El(<<"5", "0">>),
                          PartWeight |-> El(<<"0", ".", "8">>),
                          PartArea |-> El(<<"5", "0", "0", "0">>),
                          CuttingLength |-> El(<<"3", "0", "0">>)],
     Contour |-> [present |-> TRUE,
                  parameter_3 |-> El(<<"1", "2", "0">>),
                  parameter_4 |-> El(<<"6", "0">>)],
     WorkingStep |->
        [present |-> TRUE,
         WorkStepName |-> El(<<"L", "a", "s", "e", "r">>),
         WorkPlaceData |-> [present |-> TRUE,
                            MachineHourCosts |-> El(<<"8", "0">>),
                            HourlyRate |-> El(<<"3", "5">>),
                            OverheadRate |-> El(<<"1", "0">>)],
         TimeData |-> [present |-> TRUE,
                       LaserTime |-> El(<<"0", "0", ":", "3", "0", ":", "0", "0", ".", "0", "0", "0">>),
                       PositioningTime |-> El(<<"0", "0", ":", "0", "1", ":", "0", "0">>),
                       SetupTime |-> El(<<"0", "0", ":", "1", "0", ":", "0", "0">>),
                       PalletChangingTime |-> El(<<"0", "0", ":", "0", "0", ":", "3", "0">>)],
         TargetProcessingTime |-> El(<<"0", "0", ":", "4", "1", ":", "3", "0", ".", "5", "0", "0">>)],
     LaserMachine |-> [present |-> TRUE,
                       Power100Percent |-> El(<<"4", ".", "5">>),
                       Power1Percent |-> El(<<"0", ".", "5">>)],
     OrderPrice |-> [present |-> TRUE,
                     NetcostsAPiece |-> El(<<"4", ".", "0", "0">>),
                     GrosscostsAPiece |-> El(<<"4", ".", "8", "0">>)],
     ScalePriceEntries |-> <<>>]

BaseRoot ==
    [exists |-> TRUE, wellformed |-> TRUE, name |-> "a.cprj",
     datetime |-> El(<<"2", "0", "2", "5", "-", "0", "5", "-", "0", "1">>),
     author |-> [present |-> TRUE, authorversion |-> <<"1", "3", ".", "1">>],
     Options |-> [present |-> TRUE, BaseCurrency |-> El(<<"E", "U", "R">>)],
     Operator |-> [present |-> TRUE,
                   ElectricEnergyCosts |-> El(<<"0", ".", "2", "0">>),
                   CompressedAir |-> El(<<"0", ".", "0", "2">>),
                   Oxygen |-> El(<<"0", ".", "5">>),
                   Nitrogen |-> El(<<"0", ".", "4">>),
                   Argon |-> El(<<"2">>)],
     nesting |-> [present |-> TRUE,
                  allocation |-> [present |-> TRUE,
                                  sheet_id |-> <<"S", "t", "-", "2", "x", "3", "0", "0", "0", "x", "1", "5", "0", "0">>,
                                  pos |-> 4]],
     sheetData |-> [present |-> TRUE,
                    materialConsumption |-> El(<<"4", ".", "5">>)],
     waste |-> El(<<"1", "2", ",", "5">>),
     parts |-> <<>>]

\* A path that does not exist, and a file that is not markup.
MissingDoc == [BaseRoot EXCEPT !.exists = FALSE, !.wellformed = FALSE,
                               !.name = "missing.cprj"]
MalformedDoc == [BaseRoot EXCEPT !.wellformed = FALSE, !.name = "broken.cprj"]

WithArticle(p, el) == [p EXCEPT !.ArticleNo = el]
WithNetCost(p, el) == [p EXCEPT !.OrderPrice.NetcostsAPiece = el]
Numbered(ps) == [i \in 1..Len(ps) |-> [ps[i] EXCEPT !.ID = ToString(i)]]
Doc(name, ps) == [BaseRoot EXCEPT !.name = name, !.parts = Numbered(ps)]

OrderPart == WithArticle(BasePart, El(<<"O", "r", "d", "e", "r">>))
PedidoPart == WithArticle(BasePart, El(<<"P", "E", "D", "I", "D", "O">>))
AuftragPart == WithArticle(BasePart, El(<<"a", "u", "f", "t", "r", "a", "g">>))
OrdersPart == WithArticle(BasePart, El(<<"O", "r", "d", "e", "r", "s">>))
RootPart == [WithArticle(BasePart, El(<<"P", "-", "0", "0", "2">>))
                EXCEPT !.ProcessingTechnology = "NONE"]
AssemblyPart == [WithArticle(BasePart, El(<<"P", "-", "0", "0", "3">>)) EXCEPT !.type = "assembly"]
StubPart == [WithArticle(BasePart, Absent) EXCEPT !.OrderPrice.present = FALSE]
NamelessPart == WithArticle(BasePart, Absent)
EmptyNamePart == WithNetCost(WithArticle(BasePart, El(<<>>)), El(<<"0">>))
RefundPart == WithNetCost(WithArticle(BasePart, Absent), El(<<"-", "4", ".", "0", "0">>))
SecondPart == WithArticle(BasePart, El(<<"P", "-", "0", "0", "4">>))

\* Families of documents, each varying one group of elements of BasePart.
PartKinds == {BasePart, OrderPart, PedidoPart, RootPart, AssemblyPart,
              StubPart, NamelessPart}
MoreKinds == {AuftragPart, OrdersPart, EmptyNamePart, RefundPart, SecondPart}

KindDocs ==
    {Doc("a.cprj", ps) : ps \in SeqsUpTo(PartKinds, MaxParts)}
    \cup {Doc("a.cprj", <<OrderPart, k>>) : k \in MoreKinds}
    \cup {Doc("a.cprj", <<k>>) : k \in MoreKinds}

FewDocs ==
    {MissingDoc, MalformedDoc,
     Doc("a.cprj", <<OrderPart, BasePart, SecondPart>>),
     Doc("b.cprj", <<OrderPart, StubPart, BasePart>>),
     Doc("c.cprj", <<OrderPart>>)}


\* PartInformation sizes against the contour parameters
SizeXTexts == {Absent,
               El(<<"0">>),
               El(<<"0", ".", "0">>),
               El(<<"1", "0", "0">>),
               El(<<"n", "/", "a">>)}
SizeYTexts == {Absent,
               El(<<"0">>),
               El(<<"-", "0">>),
               El(<<"5", "0">>)}
Param3Texts == {Absent,
                El(<<"1", "2", "0">>),
                El(<<"a", "b", "c">>)}
Param4Texts == {Absent,
                El(<<"6", "0">>),
                El(<<"a", "b", "c">>)}
DimParts ==
    {[BasePart EXCEPT !.PartInformation.SizeX = x, !.PartInformation.SizeY = y,
                      !.Contour.parameter_3 = p3, !.Contour.parameter_4 = p4] :
        x \in SizeXTexts, y \in SizeYTexts, p3 \in Param3Texts, p4 \in Param4Texts}
    \cup {[BasePart EXCEPT !.PartInformation.present = FALSE,
                           !.Contour.present = c] : c \in BOOLEAN}
    \cup {[BasePart EXCEPT !.PartInformation.SizeX = x,
                           !.Contour.present = FALSE] : x \in SizeXTexts}

\* material, thickness and laser time: the gas estimates
MaterialTexts == {Absent,
                  El(<<"1", ".", "4", "3", "0", "1", "-", "2", "0">>),
                  El(<<"S", "t", "a", "i", "n", "l", "e", "s", "s">>),
                  El(<<"S", "T", "A", "I", "N", "L", "E", "S", "S", " ", "c", "a", "r", "b", "o", "n">>),
                  El(<<"C", "a", "r", "b", "o", "n", " ", "s", "t", "e", "e", "l">>),
                  El(<<"S", "2", "3", "5">>)}
ThicknessTexts == {Absent,
                   El(<<"0", ".", "5">>),
                   El(<<"1">>),
                   El(<<"2", ".", "0">>),
                   El(<<"3">>),
                   El(<<"1", "2">>),
                   El(<<"a", "b", "c">>),
                   El(<<"-", "2">>)}
LaserTexts == {Absent,
               El(<<"0", "0", ":", "3", "0", ":", "0", "0", ".", "0", "0", "0">>),
               El(<<"0", "0", ":", "0", "0", ":", "0", "0">>),
               El(<<"0", "1", ":", "0", "0", ":", "0", "0">>),
               El(<<"1", "2", ":", "3", "0">>),
               El(<<"-", "0", "1", ":", "0", "0", ":", "0", "0">>),
               El(<<"1", ".", "5", ":", "0", "0", ":", "0", "0">>)}
GasParts ==
    {[BasePart EXCEPT !.Material.MaterialName = m,
                      !.Material.MaterialThickness = t,
                      !.WorkingStep.TimeData.LaserTime = l] :
        m \in MaterialTexts, t \in ThicknessTexts, l \in LaserTexts}
    \cup {[BasePart EXCEPT !.Material.present = FALSE,
                           !.WorkingStep.TimeData.LaserTime = l] : l \in LaserTexts}

\* the texts of the duration elements
TimeTexts == {Absent,
              El(<<>>),
              El(<<"0", "0", ":", "3", "0", ":", "0", "0", ".", "0", "0", "0">>),
              El(<<"0", "0", ":", "3", "0", ":", "0", "0">>),
              El(<<"1", ":", "2", ":", "3">>),
              El(<<"1", "2", ":", "3", "0">>),
              El(<<"3", "0">>),
              El(<<"a", "b", ":", "c", "d">>),
              El(<<":", ":">>),
              El(<<".", "5", ":", "0", "0", ":", "0", "0">>),
              El(<<"0", "0", ":", "3", "a", ":", "0", "0">>),
              El(<<"0", "1", ":", "0", "0", ":", "0", "0", ":", "0", "0">>),
              El(<<"0", "0", ":", "3", "0", ":", "0", "0", ".", "5", ".", "5">>),
              El(<<"a", "b", ":", "c", "d", ":", "e", "f">>),
              El(<<"0", "0", ":", "3", "0", ":", "x", "5">>)}
TimeParts ==
    {[BasePart EXCEPT !.WorkingStep.TimeData.LaserTime = a,
                      !.WorkingStep.TimeData.PositioningTime = a,
                      !.WorkingStep.TimeData.SetupTime = b,
                      !.WorkingStep.TimeData.PalletChangingTime = b,
                      !.WorkingStep.TargetProcessingTime = b] :
        a \in TimeTexts, b \in TimeTexts}
    \cup {[BasePart EXCEPT !.WorkingStep.TimeData.present = FALSE],
          [BasePart EXCEPT !.WorkingStep.present = FALSE]}

\* scale-price entries; quantities are piece counts
Entry(q, c) == [Quantity |-> q, NetcostsAPiece |-> c]
EntryKinds ==
    {Entry(El(<<"1">>), El(<<"3", ".", "4", "5">>)),
     Entry(El(<<"1">>), El(<<"5", ".", "0", "0">>)),
     Entry(El(<<"1", ",", "0">>), El(<<"7">>)),
     Entry(El(<<"1", "0">>), El(<<"2", ".", "5", "0">>)),
     Entry(El(<<"1", "0", "0">>), El(<<"1", ".", "2", "0">>)),
     Entry(El(<<"5", "0", "0">>), El(<<"0", ".", "9", "0">>)),
     Entry(Absent, El(<<"9">>)),
     Entry(El(<<"1">>), Absent),
     Entry(El(<<"1">>), El(<<"n", "/", "a">>)),
     Entry(El(<<"a", "b", "c">>), El(<<"6">>))}
ScaleParts ==
    {[BasePart EXCEPT !.ScalePriceEntries = es,
                      !.OrderPrice.NetcostsAPiece = n] :
        es \in SeqsUpTo(EntryKinds, MaxEntries),
        n \in {El(<<"4", ".", "0", "0">>),
               Absent}}

\* power ratings, laser time and the electricity unit cost
PowerTexts == {Absent,
               El(<<"4", ".", "5">>),
               El(<<"a", "b", "c">>),
               El(<<"-", "4", ".", "5">>)}
Power1Texts == {Absent,
                El(<<"0", ".", "5">>),
                El(<<"a", "b", "c">>)}
PowerParts ==
    {[BasePart EXCEPT !.LaserMachine.Power100Percent = a,
                      !.LaserMachine.Power1Percent = b,
                      !.WorkingStep.TimeData.LaserTime = l] :
        a \in PowerTexts, b \in Power1Texts, l \in LaserTexts}
    \cup {[BasePart EXCEPT !.LaserMachine.present = FALSE]}

PartDocs ==
    {Doc("a.cprj", <<OrderPart, p>>) :
        p \in DimParts \cup GasParts \cup TimeParts \cup ScaleParts \cup PowerParts}


\* every element the parser reads with parse_float_value, by name, in a
\* document whose second part is the manufacturing part
PartFields ==
    {"MaterialThickness", "BasicMaterialGroupCosts", "SizeX",
     "SizeY", "PartWeight", "PartArea", "CuttingLength",
     "parameter_3", "parameter_4", "MachineHourCosts",
     "HourlyRate", "OverheadRate", "Power100Percent",
     "Power1Percent", "NetcostsAPiece", "GrosscostsAPiece",
     "ScaleQuantity", "ScaleNetcosts"}
RootFields ==
    {"ElectricEnergyCosts", "CompressedAir", "Oxygen", "Nitrogen",
     "Argon", "materialConsumption", "waste"}
NumericFields == PartFields \cup RootFields

GetField(d, f) ==
    CASE f = "MaterialThickness" -> d.parts[2].Material.MaterialThickness
      [] f = "BasicMaterialGroupCosts" -> d.parts[2].BasicMaterialGroupCosts
      [] f = "SizeX" -> d.parts[2].PartInformation.SizeX
      [] f = "SizeY" -> d.parts[2].PartInformation.SizeY
      [] f = "PartWeight" -> d.parts[2].PartInformation.PartWeight
      [] f = "PartArea" -> d.parts[2].PartInformation.PartArea
      [] f = "CuttingLength" -> d.parts[2].PartInformation.CuttingLength
      [] f = "parameter_3" -> d.parts[2].Contour.parameter_3
      [] f = "parameter_4" -> d.parts[2].Contour.parameter_4
      [] f = "MachineHourCosts" -> d.parts[2].WorkingStep.WorkPlaceData.MachineHourCosts
      [] f = "HourlyRate" -> d.parts[2].WorkingStep.WorkPlaceData.HourlyRate
      [] f = "OverheadRate" -> d.parts[2].WorkingStep.WorkPlaceData.OverheadRate
      [] f = "Power100Percent" -> d.parts[2].LaserMachine.Power100Percent
      [] f = "Power1Percent" -> d.parts[2].LaserMachine.Power1Percent
      [] f = "NetcostsAPiece" -> d.parts[2].OrderPrice.NetcostsAPiece
      [] f = "GrosscostsAPiece" -> d.parts[2].OrderPrice.GrosscostsAPiece
      [] f = "ScaleQuantity" -> d.parts[2].ScalePriceEntries[1].Quantity
      [] f = "ScaleNetcosts" -> d.parts[2].ScalePriceEntries[1].NetcostsAPiece
      [] f = "ElectricEnergyCosts" -> d.Operator.ElectricEnergyCosts
      [] f = "CompressedAir" -> d.Operator.CompressedAir
      [] f = "Oxygen" -> d.Operator.Oxygen
      [] f = "Nitrogen" -> d.Operator.Nitrogen
      [] f = "Argon" -> d.Operator.Argon
      [] f = "materialConsumption" -> d.sheetData.materialConsumption
      [] f = "waste" -> d.waste

SetField(d, f, e) ==
    CASE f = "MaterialThickness" ->
          [d EXCEPT !.parts[2].Material.MaterialThickness = e]
      [] f = "BasicMaterialGroupCosts" ->
          [d EXCEPT !.parts[2].BasicMaterialGroupCosts = e]
      [] f = "SizeX" ->
          [d EXCEPT !.parts[2].PartInformation.SizeX = e]
      [] f = "SizeY" ->
          [d EXCEPT !.parts[2].PartInformation.SizeY = e]
      [] f = "PartWeight" ->
          [d EXCEPT !.parts[2].PartInformation.PartWeight = e]
      [] f = "PartArea" ->
          [d EXCEPT !.parts[2].PartInformation.PartArea = e]
      [] f = "CuttingLength" ->
          [d EXCEPT !.parts[2].PartInformation.CuttingLength = e]
      [] f = "parameter_3" ->
          [d EXCEPT !.parts[2].Contour.parameter_3 = e]
      [] f = "parameter_4" ->
          [d EXCEPT !.parts[2].Contour.parameter_4 = e]
      [] f = "MachineHourCosts" ->
          [d EXCEPT !.parts[2].WorkingStep.WorkPlaceData.MachineHourCosts = e]
      [] f = "HourlyRate" ->
          [d EXCEPT !.parts[2].WorkingStep.WorkPlaceData.HourlyRate = e]
      [] f = "OverheadRate" ->
          [d EXCEPT !.parts[2].WorkingStep.WorkPlaceData.OverheadRate = e]
      [] f = "Power100Percent" ->
          [d EXCEPT !.parts[2].LaserMachine.Power100Percent = e]
      [] f = "Power1Percent" ->
          [d EXCEPT !.parts[2].LaserMachine.Power1Percent = e]
      [] f = "NetcostsAPiece" ->
          [d EXCEPT !.parts[2].OrderPrice.NetcostsAPiece = e]
      [] f = "GrosscostsAPiece" ->
          [d EXCEPT !.parts[2].OrderPrice.GrosscostsAPiece = e]
      [] f = "ScaleQuantity" ->
          [d EXCEPT !.parts[2].ScalePriceEntries[1].Quantity = e]
      [] f = "ScaleNetcosts" ->
          [d EXCEPT !.parts[2].ScalePriceEntries[1].NetcostsAPiece = e]
      [] f = "ElectricEnergyCosts" ->
          [d EXCEPT !.Operator.ElectricEnergyCosts = e]
      [] f = "CompressedAir" ->
          [d EXCEPT !.Operator.CompressedAir = e]
      [] f = "Oxygen" ->
          [d EXCEPT !.Operator.Oxygen = e]
      [] f = "Nitrogen" ->
          [d EXCEPT !.Operator.Nitrogen = e]
      [] f = "Argon" ->
          [d EXCEPT !.Operator.Argon = e]
      [] f = "materialConsumption" ->
          [d EXCEPT !.sheetData.materialConsumption = e]
      [] f = "waste" ->
          [d EXCEPT !.waste = e]

BadTexts == {El(<<"n", "/", "a">>),
             El(<<"-">>),
             El(<<"1", ".", "2", ".", "3">>)}
FieldBase ==
    Doc("a.cprj",
        <<OrderPart,
          [BasePart EXCEPT !.ScalePriceEntries =
                               <<Entry(El(<<"1">>), El(<<"3", ".", "4", "5">>))>>]>>)
FieldDocs ==
    {SetField(FieldBase, f, e) : f \in NumericFields, e \in BadTexts \cup {Absent}}

\* the operator section and the nesting section of the document
RootDocs ==
    {[FieldBase EXCEPT !.Operator.present = FALSE],
     [FieldBase EXCEPT !.nesting.present = FALSE],
     [FieldBase EXCEPT !.nesting.allocation.present = FALSE],
     [FieldBase EXCEPT !.sheetData.present = FALSE],
     [FieldBase EXCEPT !.Options.present = FALSE],
     [FieldBase EXCEPT !.Options.BaseCurrency = Absent],
     [FieldBase EXCEPT !.Options.BaseCurrency = El(<<"U", "S", "D">>)],
     [FieldBase EXCEPT !.author.present = FALSE],
     [FieldBase EXCEPT !.datetime = Absent]}

\* every element the parser reads as a text or a duration, by name
TextFields ==
    {"ArticleDescription", "MaterialName", "WorkStepName", "LaserTime",
     "PositioningTime", "SetupTime", "PalletChangingTime",
     "TargetProcessingTime", "datetime"}

SetTextField(d, f, e) ==
    CASE f = "ArticleDescription" ->
          [d EXCEPT !.parts[2].ArticleDescription = e]
      [] f = "MaterialName" ->
          [d EXCEPT !.parts[2].Material.MaterialName = e]
      [] f = "WorkStepName" ->
          [d EXCEPT !.parts[2].WorkingStep.WorkStepName = e]
      [] f = "LaserTime" ->
          [d EXCEPT !.parts[2].WorkingStep.TimeData.LaserTime = e]
      [] f = "PositioningTime" ->
          [d EXCEPT !.parts[2].WorkingStep.TimeData.PositioningTime = e]
      [] f = "SetupTime" ->
          [d EXCEPT !.parts[2].WorkingStep.TimeData.SetupTime = e]
      [] f = "PalletChangingTime" ->
          [d EXCEPT !.parts[2].WorkingStep.TimeData.PalletChangingTime = e]
      [] f = "TargetProcessingTime" ->
          [d EXCEPT !.parts[2].WorkingStep.TargetProcessingTime = e]
      [] f = "datetime" ->
          [d EXCEPT !.datetime = e]

TextDocs == {SetTextField(FieldBase, f, Absent) : f \in TextFields}

\* decimal texts written with a comma
CommaTexts == {El(<<"1", "2", ",", "5">>),
               El(<<"0", ",", "7", "5">>),
               El(<<"-", "3", ",", "2", "5">>),
               El(<<",", "5">>),
               El(<<"1", ".", "2", "3", "4", ",", "5">>),
               El(<<"1", "2", ",", "5", " ", "k", "g">>)}
CommaDocs ==
    {SetField(FieldBase, f, e) : f \in NumericFields, e \in CommaTexts}

\* documents of two manufacturing parts of any content, under two roots
BareLaserPart ==
    [WithArticle(BasePart, El(<<"P", "-", "0", "0", "5">>))
        EXCEPT !.LaserMachine.present = FALSE]
BareStepPart ==
    [WithArticle(BasePart, El(<<"P", "-", "0", "0", "6">>))
        EXCEPT !.WorkingStep.present = FALSE, !.Material.present = FALSE,
               !.PartInformation.present = FALSE, !.Contour.present = FALSE]
CarbonPart ==
    [WithArticle(BasePart, El(<<"P", "-", "0", "0", "7">>))
        EXCEPT !.Material.MaterialName = El(<<"C", "a", "r", "b", "o", "n">>),
               !.Material.MaterialThickness = El(<<"1", "2">>),
               !.WorkingStep.TimeData.LaserTime =
                   El(<<"0", "1", ":", "0", "0", ":", "0", "0">>)]
PairKinds == {BasePart, SecondPart, NamelessPart, BareLaserPart,
              BareStepPart, CarbonPart}
OtherRoot ==
    [BaseRoot EXCEPT !.name = "d.cprj",
                     !.Options.BaseCurrency = El(<<"U", "S", "D">>),
                     !.Operator.Argon = Absent,
                     !.nesting.allocation.sheet_id =
                         <<"A", "l", "x", "2", "0", "0", "0", "x", "a", "b">>,
                     !.waste = El(<<"n", "/", "a">>)]
PairDocs ==
    {[r EXCEPT !.parts = Numbered(<<p, q>>)] :
        r \in {BaseRoot, OtherRoot}, p \in PairKinds, q \in PairKinds}

\* sheet-ids of the nesting allocation: with and without a material prefix,
\* with more components, with components that are no numbers
SheetIds ==
    {<<"S", "t", "-", "2", "x", "3", "0", "0", "0", "x", "1", "5", "0", "0">>,
     <<"3", "0", "0", "0", "x", "1", "5", "0", "0">>,
     <<"a", "x", "b", "x", "2", "5", "0", "0", "x", "1", "2", "5", "0">>,
     <<"2", "x", "3", "0", "0", "0", "x", "1", "5", "0", "0", ".", "5">>,
     <<"x", "2", "0", "0", "0", "x", "1", "0", "0", "0">>,
     <<"S", "t", "-", "2", "x", "a", "b", "x", "1", "5", "0", "0">>,
     <<"2", "x", "3", "0", "0", "0", "x">>,
     <<"S", "t", "X", "3", "0", "0", "0", "X", "1", "5", "0", "0">>,
     <<"3", "0", "0", "0">>,
     <<>>}
SheetDocs ==
    {[FieldBase EXCEPT !.nesting.allocation.sheet_id = t] : t \in SheetIds}

Batches ==
    SeqsUpTo(FewDocs, MaxFiles)
    \cup {<<d>> : d \in KindDocs \cup PartDocs \cup FieldDocs \cup RootDocs}
    \cup {<<d>> : d \in TextDocs \cup CommaDocs \cup PairDocs \cup SheetDocs}

Init ==
    /\ file_paths \in Batches
    /\ fi = 1 /\ pc = "files" /\ pi = 1
    /\ summary = CalculationSummary
    /\ file_summaries = <<>> /\ summaries = <<>>

Spec == Init /\ [][Next]_vars

(***************************************************************************)
(* Properties.                                                             *)
(***************************************************************************)
Done == pc = "done"
\* the record of the current part exists from the end of Assemble on
InPart == pc \in {"assembled", "derived", "complete"}
AllRecords == summaries \o file_summaries
IsBad(d) == ~d.exists \/ ~d.wellformed
Positive(r) == r[1] > 0

Placeholders == {<<"o", "r", "d", "e", "r">>, <<"p", "e", "d", "i", "d", "o">>,
                 <<"a", "u", "f", "t", "r", "a", "g">>}
IsPlaceholder(article) == Lower(article) \in Placeholders
GenuineParts(d) ==
    LET Genuine(p) == ~(p.ArticleNo.present /\ IsPlaceholder(p.ArticleNo.text))
    IN  SelectSeq(d.parts, Genuine)

\* C1: no record of the batch or of the file being read has an article
\* number that is, ignoring case, "order", "pedido" or "auftrag"; and a
\* document whose sheet-metal parts all carry such an article number yields
\* no record.
C1_NoOrderRecords ==
    /\ \A i \in 1..Len(AllRecords) : ~IsPlaceholder(AllRecords[i].article_no)
    /\ (Done /\ Len(file_paths) = 1 /\ ~IsBad(file_paths[1])
          /\ GenuineParts(file_paths[1]) = <<>>)
       => summaries = <<>>

\* C1 witness: a finished run of a document that holds an "Order" part,
\* written with a capital, and a part that gave a record.
C1_Witness ==
    /\ Done /\ Len(file_paths) = 1 /\ summaries # <<>>
    /\ \E i \in 1..Len(file_paths[1].parts) :
          file_paths[1].parts[i].ArticleNo = El(<<"O", "r", "d", "e", "r">>)

\* C2: every record of the batch or of the file being read has a non-empty
\* article number or a net cost per piece above zero.
C2_RecordsCarryData ==
    \A i \in 1..Len(AllRecords) :
        AllRecords[i].article_no # <<>> \/ Positive(AllRecords[i].net_cost_per_piece)

\* C2 witness: a finished run in which a part without article number and
\* without positive net cost was parsed and left out, next to kept records.
C2_Witness ==
    /\ Done /\ Len(file_paths) = 1 /\ summaries # <<>>
    /\ \E i \in 1..Len(file_paths[1].parts) :
          LET p == file_paths[1].parts[i]
          IN  /\ IsSheetMetalPart(p) /\ ~IsSkipped(p)
              /\ ~p.ArticleNo.present /\ ~p.OrderPrice.present
    /\ Len(summaries) < Len(file_paths[1].parts)

\* C3: in the record of every part, once the derived metrics are computed,
\* and in every record kept, oxygen_consumption and nitrogen_consumption are
\* not both nonzero.
ExclusiveGas(s) == s.oxygen_consumption = RZero \/ s.nitrogen_consumption = RZero
C3_GasExclusive ==
    /\ pc \in {"derived", "complete"} => ExclusiveGas(summary)
    /\ \A i \in 1..Len(AllRecords) : ExclusiveGas(AllRecords[i])

\* C3 witness: a stainless material thinner than 3.0 with positive laser
\* time: nitrogen is estimated although the oxygen condition holds as well.
C3_Witness ==
    /\ pc = "complete"
    /\ summary.nitrogen_consumption # RZero
    /\ summary.oxygen_consumption = RZero
    /\ Positive(summary.material_thickness)
    /\ summary.material_thickness[1] < 3 * summary.material_thickness[2]

\* the parts of a document that give a record, in document order
YieldsRecord(d, p) ==
    /\ IsSheetMetalPart(p) /\ ~IsSkipped(p)
    /\ HasUsefulData(parse_single_part(d, p, d.name))
KeptParts(d) ==
    LET Kept(p) == YieldsRecord(d, p)
    IN  IF IsBad(d) THEN <<>> ELSE SelectSeq(d.parts, Kept)
RECURSIVE ExpectedKeys(_)
ExpectedKeys(paths) ==
    IF paths = <<>> THEN <<>>
    ELSE [k \in 1..Len(KeptParts(Head(paths))) |->
              <<Head(paths).name, KeptParts(Head(paths))[k].ID>>]
         \o ExpectedKeys(Tail(paths))
Keys(list) == [k \in 1..Len(list) |-> <<list[k].filename, list[k].part_id>>]

\* C4: the list returned for a batch holds, file after file in the order of
\* file_paths and part after part in document order, one record for every
\* part that gives a record: nothing is removed, merged or reordered, and a
\* file listed twice gives its records twice.
C4_OrderPreserved ==
    Done => Keys(summaries) = ExpectedKeys(file_paths)

\* C4 witness: a finished batch that lists one file twice around another
\* one, the first giving two records and the second at least one.
C4_Witness ==
    /\ Done /\ Len(file_paths) = 3
    /\ file_paths[1] = file_paths[3] /\ file_paths[1] # file_paths[2]
    /\ Len(KeptParts(file_paths[1])) >= 2 /\ Len(KeptParts(file_paths[2])) >= 1
    /\ Len(summaries) = 2 * Len(KeptParts(file_paths[1])) + Len(KeptParts(file_paths[2]))

\* what the files that can be read yield, each processed alone, in order
RECURSIVE AloneRecords(_)
AloneRecords(paths) ==
    IF paths = <<>> THEN <<>>
    ELSE parse_calculation_file(Head(paths)) \o AloneRecords(Tail(paths))
ReadableFiles == LET Readable(d) == ~IsBad(d) IN SelectSeq(file_paths, Readable)

\* C5: a file that is missing or not parseable adds no record and does not
\* end the batch: the list returned is the concatenation of what each other
\* file yields when processed alone, wherever the bad files stand, and the
\* step taken at a bad file goes on to the next file with the list as it was.
C5_BadFileSkipped ==
    /\ [](Done => summaries = AloneRecords(ReadableFiles))
    /\ [][(pc = "files" /\ fi <= Len(file_paths) /\ IsBad(root))
            => (pc' = "files" /\ fi' = fi + 1 /\ summaries' = summaries)]_vars

\* C5 witness: a finished batch with a missing and a malformed file, each
\* followed by a file whose records are in the list returned.
C5_Witness ==
    /\ Done /\ summaries # <<>>
    /\ \E i, j \in 1..Len(file_paths) :
          /\ i < j /\ j < Len(file_paths)
          /\ ~file_paths[i].exists
          /\ file_paths[j].exists /\ ~file_paths[j].wellformed
          /\ parse_calculation_file(file_paths[Len(file_paths)]) # <<>>

\* what PartInformation gives for a dimension, and the contour's value
PrimaryX(p) == IF p.PartInformation.present
               THEN parse_float_value(p.PartInformation.SizeX, RZero) ELSE RZero
PrimaryY(p) == IF p.PartInformation.present
               THEN parse_float_value(p.PartInformation.SizeY, RZero) ELSE RZero
HasFallback(p, e) == p.Contour.present /\ e.present

\* C6: a dimension that PartInformation gives as nonzero is the record's
\* dimension whatever the contour holds and whatever the other dimension
\* is; a dimension that is zero there is taken from the contour parameter
\* when the contour has it.
C6_FallbackOnlyOnZero ==
    InPart =>
        /\ PrimaryX(part) # RZero => summary.part_dimensions_x = PrimaryX(part)
        /\ PrimaryY(part) # RZero => summary.part_dimensions_y = PrimaryY(part)
        /\ (PrimaryX(part) = RZero /\ HasFallback(part, part.Contour.parameter_3))
           => summary.part_dimensions_x =
                  parse_float_value(part.Contour.parameter_3, RZero)
        /\ (PrimaryY(part) = RZero /\ HasFallback(part, part.Contour.parameter_4))
           => summary.part_dimensions_y =
                  parse_float_value(part.Contour.parameter_4, RZero)

\* C6 witness: a nonzero SizeX kept against a different nonzero parameter_3
\* while the zero SizeY was replaced by parameter_4.
C6_Witness ==
    /\ pc = "complete"
    /\ PrimaryX(part) # RZero /\ PrimaryY(part) = RZero
    /\ HasFallback(part, part.Contour.parameter_3)
    /\ HasFallback(part, part.Contour.parameter_4)
    /\ parse_float_value(part.Contour.parameter_3, RZero) \notin {RZero, PrimaryX(part)}
    /\ summary.part_dimensions_x = PrimaryX(part)
    /\ summary.part_dimensions_y = parse_float_value(part.Contour.parameter_4, RZero)
    /\ summary.part_dimensions_y # RZero

\* the scale-price entries of a part for quantity 1
IsNumber(t) == IsFloatText(ReplaceChar(t, ",", "."))
QuantityOne(e) ==
    e.Quantity.present /\ IsNumber(e.Quantity.text)
    /\ parse_float_value(e.Quantity, RZero) = RInt(1)
PricedOnes(p) ==
    {i \in 1..Len(p.ScalePriceEntries) :
        QuantityOne(p.ScalePriceEntries[i]) /\ p.ScalePriceEntries[i].NetcostsAPiece.present}
LastOf(S) == CHOOSE i \in S : \A j \in S : j <= i

\* C7: cost_qty_1 is the unit cost of the part's scale-price entry for
\* quantity 1 (of the last one, when several carry a unit cost), whatever
\* net_cost_per_piece is, and is net_cost_per_piece when the part has no
\* entry for quantity 1.
C7_QuantityOnePrice ==
    InPart =>
        /\ (PricedOnes(part) # {}
              /\ IsNumber(part.ScalePriceEntries[LastOf(PricedOnes(part))].NetcostsAPiece.text))
           => summary.cost_qty_1 =
                  parse_float_value(
                      part.ScalePriceEntries[LastOf(PricedOnes(part))].NetcostsAPiece, RZero)
        /\ (\A i \in 1..Len(part.ScalePriceEntries) : ~QuantityOne(part.ScalePriceEntries[i]))
           => summary.cost_qty_1 = summary.net_cost_per_piece

\* C7 witness: a quantity-1 entry whose unit cost is in the record although
\* the part's net cost per piece is another, positive, amount.
C7_Witness ==
    /\ pc = "complete" /\ PricedOnes(part) # {}
    /\ Positive(summary.net_cost_per_piece)
    /\ Positive(summary.cost_qty_1)
    /\ summary.cost_qty_1 # summary.net_cost_per_piece

\* a duration of three colon-separated components, each a run of digits
AllDigits(t) == t # <<>> /\ \A i \in 1..Len(t) : IsDigit(t[i])
WellFormedDuration(t) ==
    LET c == Split(t, ":")
    IN  Len(c) = 3 /\ AllDigits(c[1]) /\ AllDigits(c[2]) /\ AllDigits(c[3])
DurationFieldsWellFormed(s) ==
    \A t \in {s.laser_time, s.positioning_time, s.setup_time,
              s.pallet_changing_time, s.total_processing_time} :
        t = ZeroTime \/ WellFormedDuration(t)

\* C8: in every record kept, each of the five duration fields is "00:00:00"
\* or three colon-separated numeric components, whatever the text of the
\* duration element was.
C8_DurationsWellFormed ==
    \A i \in 1..Len(AllRecords) : DurationFieldsWellFormed(AllRecords[i])

\* the first part of a document that is not an order part
ScenarioPart(d) == GenuineParts(d)[1]
IsScenario(d) ==
    /\ ~IsBad(d) /\ Len(GenuineParts(d)) = 1
    /\ LET p == ScenarioPart(d)
       IN  /\ IsSheetMetalPart(p) /\ p.ProcessingTechnology = ""
           /\ p.ArticleNo = El(<<"P", "-", "0", "0", "1">>)
           /\ p.Material.present
           /\ p.Material.MaterialName = El(<<"1", ".", "4", "3", "0", "1", "-", "2", "0">>)
           /\ p.Material.MaterialThickness = El(<<"2", ".", "0">>)
           /\ p.WorkingStep.present /\ p.WorkingStep.TimeData.present
           /\ p.WorkingStep.TimeData.LaserTime = El(<<"0", "0", ":", "3", "0", ":", "0", "0", ".", "0", "0", "0">>)
           /\ p.LaserMachine.present
           /\ p.LaserMachine.Power1Percent = El(<<"0", ".", "5">>)
           /\ p.LaserMachine.Power100Percent = El(<<"4", ".", "5">>)
    /\ d.Operator.present
    /\ d.Operator.ElectricEnergyCosts = El(<<"0", ".", "2", "0">>)

\* C9: the document of the end-to-end scenario (one part P-001 of material
\* 1.4301-20, thickness 2.0, laser time 00:30:00.000, ratings 0.5 kW and
\* 4.5 kW, electricity at 0.20) yields exactly one record, with 1.25 kWh,
\* an electricity cost of 0.25, 0.3 of nitrogen and no oxygen.
C9_Scenario ==
    (Done /\ Len(file_paths) = 1 /\ IsScenario(file_paths[1])) =>
        /\ Len(summaries) = 1
        /\ summaries[1].power_consumption_kwh = <<5, 4>>
        /\ summaries[1].electricity_cost_total = <<1, 4>>
        /\ summaries[1].nitrogen_consumption = <<3, 10>>
        /\ summaries[1].oxygen_consumption = RZero

\* C9 witness: the finished run of the scenario document, without any other
\* part in it.
C9_Witness ==
    /\ Done /\ Len(file_paths) = 1 /\ IsScenario(file_paths[1])
    /\ Len(file_paths[1].parts) = 1 /\ Len(summaries) = 1
    /\ summaries[1].laser_time = <<"0", "0", ":", "3", "0", ":", "0", "0">>

\* C10: a document in which a numeric element holds a text that is not a
\* number yields the records of the same document without that element.
C10_UnparsableLikeMissing ==
    (Done /\ Len(file_paths) = 1 /\ file_paths[1] \in FieldDocs) =>
        \A f \in NumericFields :
            (GetField(file_paths[1], f).present
               /\ GetField(file_paths[1], f).text # <<>>
               /\ ~IsNumber(GetField(file_paths[1], f).text))
            => summaries = parse_multiple_files(<<SetField(file_paths[1], f, Absent)>>)

\* the record fields that the absence of one element of FieldBase leaves at
\* their fallback or default, with the value each then holds
AbsentDefault(f) ==
    CASE f = "MaterialThickness" -> {<<"material_thickness", RZero>>}
      [] f = "BasicMaterialGroupCosts" -> {<<"material_cost_per_kg", RZero>>}
      [] f = "SizeX" -> {<<"part_dimensions_x", RInt(120)>>}
      [] f = "SizeY" -> {<<"part_dimensions_y", RInt(60)>>}
      [] f = "PartWeight" -> {<<"part_weight", RZero>>}
      [] f = "PartArea" -> {<<"part_area", RZero>>}
      [] f = "CuttingLength" -> {<<"cutting_length", RZero>>}
      [] f = "parameter_3" -> {<<"part_dimensions_x", RInt(100)>>}
      [] f = "parameter_4" -> {<<"part_dimensions_y", RInt(50)>>}
      [] f = "MachineHourCosts" -> {<<"machine_hour_cost", RZero>>}
      [] f = "HourlyRate" -> {<<"operator_hour_cost", RZero>>}
      [] f = "OverheadRate" -> {<<"overhead_rate", RZero>>}
      [] f = "Power100Percent" -> {<<"power_consumption_kwh", RZero>>,
                                   <<"electricity_cost_total", RZero>>}
      [] f = "Power1Percent" -> {<<"power_consumption_kwh", RZero>>,
                                 <<"electricity_cost_total", RZero>>}
      [] f = "GrosscostsAPiece" -> {<<"gross_cost_per_piece", RZero>>}
      [] f = "ScaleQuantity" -> {<<"cost_qty_1", RInt(4)>>}
      [] f = "ScaleNetcosts" -> {<<"cost_qty_1", RInt(4)>>}
      [] f = "ElectricEnergyCosts" -> {<<"electricity_cost_per_kwh", RZero>>,
                                       <<"electricity_cost_total", RZero>>}
      [] f = "CompressedAir" -> {<<"compressed_air_cost_per_nm3", RZero>>,
                                 <<"compressed_air_cost_total", RZero>>}
      [] f = "Oxygen" -> {<<"oxygen_cost_per_nm3", RZero>>}
      [] f = "Nitrogen" -> {<<"nitrogen_cost_per_nm3", RZero>>,
                            <<"nitrogen_cost_total", RZero>>}
      [] f = "Argon" -> {<<"argon_cost_per_nm3", RZero>>}
      [] f = "materialConsumption" -> {<<"material_consumption", RZero>>}
      [] f = "waste" -> {<<"waste_percentage", RZero>>,
                         <<"material_utilization", RZero>>}
      [] f = "ArticleDescription" -> {<<"article_description", <<>>>>}
      [] f = "MaterialName" -> {<<"material_name", <<>>>>,
                                <<"nitrogen_consumption", RZero>>}
      [] f = "WorkStepName" -> {<<"machine_name", <<>>>>}
      [] f = "LaserTime" -> {<<"laser_time", ZeroTime>>,
                             <<"power_consumption_kwh", RZero>>,
                             <<"compressed_air_consumption", RZero>>}
      [] f = "PositioningTime" -> {<<"positioning_time", ZeroTime>>}
      [] f = "SetupTime" -> {<<"setup_time", ZeroTime>>}
      [] f = "PalletChangingTime" -> {<<"pallet_changing_time", ZeroTime>>}
      [] f = "TargetProcessingTime" -> {<<"total_processing_time", ZeroTime>>}
      [] f = "datetime" -> {<<"calculation_date", <<>>>>}

\* FieldBase without one element other than the article number and the net cost
OptionalNumeric == NumericFields \ {"NetcostsAPiece"}
Without(f) == IF f \in TextFields THEN SetTextField(FieldBase, f, Absent)
              ELSE SetField(FieldBase, f, Absent)

\* C11: a parseable document from which one element other than the article
\* number and the net cost is taken away is read like the complete one: it
\* yields as many records (here one), and the record field fed by the element
\* holds its fallback (the contour parameter for a size, the net cost per
\* piece for the quantity-1 price) or its default (0.0, "", "00:00:00").
C11_AbsentFieldDefaults ==
    (Done /\ Len(file_paths) = 1) =>
        \A f \in OptionalNumeric \cup TextFields :
            file_paths[1] = Without(f) =>
                /\ Len(summaries) = Len(parse_multiple_files(<<FieldBase>>))
                /\ Len(summaries) = 1
                /\ \A fv \in AbsentDefault(f) : summaries[1][fv[1]] = fv[2]

\* C11 witness: the finished run of the document without its waste element,
\* with one record whose other nesting fields are filled.
C11_Witness ==
    /\ Done /\ Len(file_paths) = 1 /\ file_paths[1] = Without("waste")
    /\ Len(summaries) = 1
    /\ summaries[1].material_consumption # RZero
    /\ summaries[1].parts_per_sheet = 4

\* the inputs of the electricity estimate that a part may lack
RatingAbsent(p) ==
    \/ ~p.LaserMachine.present
    \/ ~p.LaserMachine.Power100Percent.present
    \/ ~p.LaserMachine.Power1Percent.present
LaserTimeAbsent(p) ==
    \/ ~p.WorkingStep.present
    \/ ~p.WorkingStep.TimeData.present
    \/ ~p.WorkingStep.TimeData.LaserTime.present
NoElectricity(s) ==
    s.power_consumption_kwh = RZero /\ s.electricity_cost_total = RZero

\* C12: once the derived metrics of a part are computed, if the part lacks
\* one of the two power ratings, or lacks the laser time, or its laser time
\* is the zero duration "00:00:00", then power_consumption_kwh and
\* electricity_cost_total are both 0; so are they in the record before the
\* calculator has run.
C12_NoInputsNoElectricity ==
    /\ pc = "assembled" => NoElectricity(summary)
    /\ pc \in {"derived", "complete"} =>
          ((RatingAbsent(part) \/ LaserTimeAbsent(part)
              \/ summary.laser_time = ZeroTime)
           => NoElectricity(summary))
    /\ Done => \A i \in 1..Len(summaries) :
                   summaries[i].laser_time = ZeroTime => NoElectricity(summaries[i])

\* C12 witness: a part with the rating at 100% and half an hour or more of
\* laser time but without the rating at 1%, in a document with an
\* electricity unit cost: nothing is estimated.
C12_Witness ==
    /\ pc = "complete"
    /\ part.LaserMachine.present
    /\ ~part.LaserMachine.Power1Percent.present
    /\ Positive(parse_float_value(part.LaserMachine.Power100Percent, RZero))
    /\ ~LaserTimeAbsent(part)
    /\ Positive(time_string_to_hours(part.WorkingStep.TimeData.LaserTime.text))
    /\ Positive(summary.electricity_cost_per_kwh)
    /\ NoElectricity(summary)

\* the duration strings that the calculator hands to time_string_to_hours
\* for the current part: the LaserTime text (line 207) and the record's
\* laser_time (line 216)
RawLaserTime(p) ==
    IF p.WorkingStep.TimeData.LaserTime.text = <<>> THEN ZeroTime
    ELSE p.WorkingStep.TimeData.LaserTime.text
HoursInputs ==
    (IF LaserTimeAbsent(part) THEN {} ELSE {RawLaserTime(part)})
    \cup {summary.laser_time}
\* a text that float() does not read: empty, or holding a character that is
\* not a digit, a sign or a period, or holding two periods
NotANumber(t) ==
    \/ t = <<>>
    \/ \E i \in 1..Len(t) : ~(IsDigit(t[i]) \/ t[i] \in {".", "-", "+"})
    \/ Count(t, ".") > 1
\* the three components the function converts: hours, minutes, and the
\* seconds up to their first period
ComponentNotANumber(t) ==
    LET c == Split(t, ":")
    IN  Len(c) >= 3 /\ (NotANumber(c[1]) \/ NotANumber(c[2])
                          \/ NotANumber(Split(c[3], ".")[1]))
IsHours(h) == Len(h) = 2 /\ h[2] > 0

\* C13: for every duration string the calculator converts,
\* time_string_to_hours gives a number (it does not raise), and gives 0 when
\* the string has fewer than three colon-separated components, when it is
\* "00:00:00", and when the hours, the minutes or the whole seconds are not
\* a number; the estimate made from the LaserTime text is then 0 kWh and the
\* one made from the record's laser_time is no compressed air.
C13_HoursZero ==
    pc \in {"derived", "complete"} =>
        /\ \A t \in HoursInputs :
              /\ IsHours(time_string_to_hours(t))
              /\ (Len(Split(t, ":")) < 3 \/ t = ZeroTime \/ ComponentNotANumber(t))
                 => time_string_to_hours(t) = RZero
        /\ \A t \in HoursInputs \ {summary.laser_time} :
              (Len(Split(t, ":")) < 3 \/ t = ZeroTime \/ ComponentNotANumber(t))
              => summary.power_consumption_kwh = RZero
        /\ (Len(Split(summary.laser_time, ":")) < 3 \/ summary.laser_time = ZeroTime
              \/ ComponentNotANumber(summary.laser_time))
           => summary.compressed_air_consumption = RZero

\* C13 witness: a LaserTime of two numeric components ("12:30") in a part
\* with both power ratings: no hours, no energy.
C13_Witness ==
    /\ pc = "complete" /\ ~LaserTimeAbsent(part) /\ ~RatingAbsent(part)
    /\ RawLaserTime(part) = <<"1", "2", ":", "3", "0">>
    /\ Positive(parse_float_value(part.LaserMachine.Power100Percent, RZero))
    /\ Positive(parse_float_value(part.LaserMachine.Power1Percent, RZero))
    /\ summary.laser_time = <<"1", "2", ":", "3", "0">>
    /\ summary.power_consumption_kwh = RZero

\* the same text with a period for every comma
WithPeriod(e) == El(ReplaceChar(e.text, ",", "."))
UsesComma(e) == e.present /\ Contains(e.text, <<",">>)
TwelveAndAHalf == <<"1", "2", ",", "5">>

\* C14: a numeric element written with a comma is read as the same element
\* written with a period: parse_float_value gives the same value for both
\* texts ("12,5" gives 12.5 like "12.5"), and the document yields the records
\* of the document that holds the period text in that element.
C14_CommaAsPeriod ==
    (Done /\ Len(file_paths) = 1 /\ file_paths[1] \in CommaDocs \cup FieldDocs) =>
        \A f \in NumericFields :
            LET e == GetField(file_paths[1], f)
            IN  UsesComma(e) =>
                  /\ parse_float_value(e, RZero) = parse_float_value(WithPeriod(e), RZero)
                  /\ e.text = TwelveAndAHalf => parse_float_value(e, RZero) = <<25, 2>>
                  /\ summaries =
                         parse_multiple_files(<<SetField(file_paths[1], f, WithPeriod(e))>>)

\* C14 witness: the finished run of the document whose part weight is
\* "12,5", with 12.5 in the record.
C14_Witness ==
    /\ Done /\ Len(file_paths) = 1 /\ file_paths[1] \in CommaDocs
    /\ GetField(file_paths[1], "PartWeight").text = TwelveAndAHalf
    /\ Len(summaries) = 1
    /\ summaries[1].part_weight = <<25, 2>>

\* the document's operator section gives an electricity unit cost
UnitCostGiven(d) == d.Operator.present /\ d.Operator.ElectricEnergyCosts.present

\* C15: once the derived metrics of a part are computed,
\* power_consumption_kwh is nonzero only if the document's operator section
\* provides an electricity unit cost and the part has a laser time.
C15_NeedsUnitCost ==
    pc \in {"derived", "complete"} =>
        (summary.power_consumption_kwh # RZero
         => (UnitCostGiven(root) /\ ~LaserTimeAbsent(part)))

\* the energy estimated for the current part from a document without
\* operator section
EnergyUnpriced ==
    calculate_energy_and_gas_consumption(
        [root EXCEPT !.Operator.present = FALSE], part,
        AssemblePart(root, part, root.name)).power_consumption_kwh

\* C15 as amended: power_consumption_kwh is nonzero only if the part has
\* both power ratings and a laser time; it does not depend on the
\* electricity unit cost, being what the same part gives in a document
\* without operator section.
C15_NeedsRatingsAndTime ==
    pc \in {"derived", "complete"} =>
        /\ summary.power_consumption_kwh # RZero
           => (~RatingAbsent(part) /\ ~LaserTimeAbsent(part))
        /\ summary.power_consumption_kwh = EnergyUnpriced

\* C15 witness: a record with energy estimated and no electricity cost, from
\* a document whose operator section has no electricity unit cost.
C15_Witness ==
    /\ pc = "complete" /\ ~UnitCostGiven(root)
    /\ Positive(summary.power_consumption_kwh)
    /\ summary.electricity_cost_total = RZero
    /\ summary.electricity_cost_per_kwh = RZero

\* the arithmetic mean of the part's two power ratings
MeanRating(p) ==
    RDivInt(RAdd(parse_float_value(p.LaserMachine.Power100Percent, RZero),
                 parse_float_value(p.LaserMachine.Power1Percent, RZero)), 2)

\* C16: once the derived metrics of a part with both power ratings are
\* computed, power_consumption_kwh is the mean of the two ratings times the
\* laser hours of the record's own laser_time (the hours of the gas
\* estimates), and electricity_cost_total is power_consumption_kwh times
\* electricity_cost_per_kwh, whatever the text of the LaserTime element.
C16_EnergyFromRecordTime ==
    (pc \in {"derived", "complete"} /\ ~RatingAbsent(part)) =>
        /\ summary.power_consumption_kwh =
               RMul(MeanRating(part), time_string_to_hours(summary.laser_time))
        /\ summary.electricity_cost_total =
               RMul(summary.power_consumption_kwh, summary.electricity_cost_per_kwh)

\* the laser hours of a record, the classification of its material, clamp
RLe(a, b) == ~RLt(b, a)
LaserHours(s) == time_string_to_hours(s.laser_time)
NamesStainless(s) ==
    \/ Contains(Lower(s.material_name), <<"s", "t", "a", "i", "n", "l", "e", "s", "s">>)
    \/ Contains(s.material_name, <<"1", ".", "4", "3">>)
Clamp(x, lo, hi) == IF RLt(x, lo) THEN lo ELSE IF RLt(hi, x) THEN hi ELSE x
NitrogenConfigured(d) == d.Operator.present /\ d.Operator.Nitrogen.present

\* C17: once the derived metrics are computed, a record with positive laser
\* hours whose material name contains "stainless" in any case, or "1.43",
\* has nitrogen_consumption = laser hours * clamp(thickness * 0.3, 0.5, 3.0),
\* hence between 0.5 and 3.0 per laser hour, and nitrogen_cost_total =
\* nitrogen_consumption * nitrogen_cost_per_nm3, which is 0 when the
\* document configures no nitrogen unit cost.
C17_NitrogenEstimate ==
    (pc \in {"derived", "complete"} /\ Positive(LaserHours(summary))
       /\ NamesStainless(summary)) =>
        /\ summary.nitrogen_consumption =
               RMul(LaserHours(summary),
                    Clamp(RMul(summary.material_thickness, <<3, 10>>), <<1, 2>>, RInt(3)))
        /\ RLe(RMul(LaserHours(summary), <<1, 2>>), summary.nitrogen_consumption)
        /\ RLe(summary.nitrogen_consumption, RMul(LaserHours(summary), RInt(3)))
        /\ summary.nitrogen_cost_total =
               RMul(summary.nitrogen_consumption, summary.nitrogen_cost_per_nm3)
        /\ ~NitrogenConfigured(root) => summary.nitrogen_cost_total = RZero

\* C17 witness: a stainless part 12 thick with an hour of laser time: the
\* rate is held at 3.0, and the nitrogen has a cost.
C17_Witness ==
    /\ pc = "complete" /\ NamesStainless(summary)
    /\ summary.material_thickness = RInt(12)
    /\ LaserHours(summary) = RInt(1)
    /\ summary.nitrogen_consumption = RInt(3)
    /\ Positive(summary.nitrogen_cost_total)

NamesCarbon(s) == Contains(Lower(s.material_name), <<"c", "a", "r", "b", "o", "n">>)
IsThin(s) == RLt(s.material_thickness, RInt(3))
OxygenCase(s) ==
    Positive(LaserHours(s)) /\ ~NamesStainless(s) /\ (NamesCarbon(s) \/ IsThin(s))

\* C18: once the derived metrics are computed, oxygen_consumption is nonzero
\* exactly when the laser hours are positive, the material is not stainless,
\* and its name contains "carbon" in any case or the thickness is below 3.0;
\* it is then laser hours * clamp(thickness * 0.2, 0.3, 2.0).  A material
\* that is neither stainless nor carbon, 3.0 thick or more, has neither
\* oxygen nor nitrogen.
C18_OxygenEstimate ==
    pc \in {"derived", "complete"} =>
        /\ summary.oxygen_consumption # RZero <=> OxygenCase(summary)
        /\ OxygenCase(summary) =>
              summary.oxygen_consumption =
                  RMul(LaserHours(summary),
                       Clamp(RMul(summary.material_thickness, <<1, 5>>), <<3, 10>>, RInt(2)))
        /\ (~NamesStainless(summary) /\ ~NamesCarbon(summary) /\ ~IsThin(summary))
           => (summary.oxygen_consumption = RZero
                 /\ summary.nitrogen_consumption = RZero)

\* C18 witness: a carbon steel 12 thick with positive laser hours gets
\* oxygen at the rate held at 2.0, though it is not thin.
C18_Witness ==
    /\ pc = "complete" /\ NamesCarbon(summary) /\ ~NamesStainless(summary)
    /\ summary.material_thickness = RInt(12)
    /\ Positive(LaserHours(summary))
    /\ summary.oxygen_consumption = RMul(LaserHours(summary), RInt(2))
    /\ summary.nitrogen_consumption = RZero

AirFromCost(s) ==
    s.compressed_air_cost_total =
        RMul(s.compressed_air_consumption, s.compressed_air_cost_per_nm3)

DocumentFields(s) ==
    <<s.currency, s.calculation_date, s.author_version,
      s.sheet_dimensions_x, s.sheet_dimensions_y, s.parts_per_sheet,
      s.material_consumption, s.waste_percentage, s.material_utilization,
      s.electricity_cost_per_kwh, s.compressed_air_cost_per_nm3,
      s.oxygen_cost_per_nm3, s.nitrogen_cost_per_nm3, s.argon_cost_per_nm3>>

\* C20: any two records of the batch or of the file being read that come
\* from the same document agree on currency, calculation_date,
\* author_version, the sheet dimensions, parts_per_sheet,
\* material_consumption, waste_percentage, material_utilization and the five
\* unit costs of the operator section, whatever their parts hold.
C20_DocumentFieldsShared ==
    \A i, j \in 1..Len(AllRecords) :
        AllRecords[i].filename = AllRecords[j].filename
        => DocumentFields(AllRecords[i]) = DocumentFields(AllRecords[j])

\* C20 witness: a finished document of two records, one of a part with its
\* laser machine and one of a part without, under a root of its own values.
C20_Witness ==
    /\ Done /\ Len(file_paths) = 1 /\ Len(summaries) = 2
    /\ file_paths[1].parts[1].LaserMachine.present
    /\ ~file_paths[1].parts[2].LaserMachine.present
    /\ summaries[1].power_consumption_kwh # summaries[2].power_consumption_kwh
    /\ summaries[1].currency = <<"U", "S", "D">>
    /\ summaries[2].nitrogen_cost_per_nm3 # RZero

(***************************************************************************)
(* C21: calculate_energy_and_gas_consumption changes only the consumption  *)
(* block of the record.                                                    *)
(***************************************************************************)
\* the consumption, unit-cost and total-cost fields of electricity and of the
\* four gases
ConsumptionBlock ==
    {"power_consumption_kwh", "electricity_cost_per_kwh",
     "electricity_cost_total",
     "compressed_air_consumption", "compressed_air_cost_per_nm3",
     "compressed_air_cost_total",
     "oxygen_consumption", "oxygen_cost_per_nm3", "oxygen_cost_total",
     "nitrogen_consumption", "nitrogen_cost_per_nm3", "nitrogen_cost_total",
     "argon_consumption", "argon_cost_per_nm3", "argon_cost_total"}
\* the record's other fields: identity, geometry, material, process, nesting,
\* cost and metadata
NonConsumption(s) ==
    [f \in (DOMAIN s) \ ConsumptionBlock |-> s[f]]

\* C21: the step that runs calculate_energy_and_gas_consumption (line 377)
\* leaves every field of the record outside the consumption block with the
\* value it had before the call, and leaves the documents as they were.
C21_OnlyConsumptionBlock ==
    [][pc = "assembled" =>
          /\ NonConsumption(summary') = NonConsumption(summary)
          /\ file_paths' = file_paths]_vars

\* the calculator has just run on a record and wrote an electricity estimate,
\* a compressed-air estimate and a unit cost into it, and nothing else
C21_Witness ==
    /\ pc = "derived"
    /\ summary.power_consumption_kwh # RZero
    /\ summary.compressed_air_consumption # RZero
    /\ summary.electricity_cost_per_kwh # RZero
    /\ summary.laser_time # ZeroTime
    /\ summary.article_no # <<>>
    /\ NonConsumption(summary) =
           NonConsumption(AssemblePart(root, part, root.name))

(***************************************************************************)
(* C22: the calculator runs on the assembled record.                       *)
(***************************************************************************)
\* the fields lines 379-406 take from the document: nesting, sheet, material
\* consumption and waste
NestingBlock ==
    {"sheet_dimensions_x", "sheet_dimensions_y", "parts_per_sheet",
     "material_consumption", "waste_percentage", "material_utilization"}
NestingFields(s) == [f \in NestingBlock |-> s[f]]
\* the non-consumption fields lines 235-374 assign
PartLevel(s) ==
    [f \in ((DOMAIN s) \ ConsumptionBlock) \ NestingBlock |-> s[f]]

\* C22 as stated: when calculate_energy_and_gas_consumption is invoked on a
\* record (line 377), every non-consumption field of the record, the nesting,
\* sheet, material-consumption and waste fields included, already holds the
\* value the finished record has.
C22_AllFinalAtInvocation ==
    pc = "assembled" =>
        NonConsumption(summary) =
            NonConsumption(parse_single_part(root, part, root.name))

\* C22: when the calculator is invoked on a record, every non-consumption field
\* other than the six nesting fields holds its final value and the six nesting
\* fields still hold their defaults; the calculator and the lines after it
\* assign none of the former.
C22_PartFieldsFinalAtInvocation ==
    [][/\ pc = "assembled" =>
             /\ NestingFields(summary) = NestingFields(CalculationSummary)
             /\ PartLevel(summary') = PartLevel(summary)
       /\ pc = "derived" => PartLevel(summary') = PartLevel(summary)]_vars

\* a finished record whose six nesting fields were assigned after the calculator
\* wrote its estimates, the part's own fields being those of the assembly
C22_Witness ==
    /\ pc = "complete"
    /\ summary.power_consumption_kwh # RZero
    /\ summary.sheet_dimensions_x # RZero
    /\ summary.sheet_dimensions_y # RZero
    /\ summary.parts_per_sheet # 0
    /\ summary.material_consumption # RZero
    /\ summary.waste_percentage # RZero
    /\ summary.article_no # <<>>
    /\ PartLevel(summary) = PartLevel(AssemblePart(root, part, root.name))

(***************************************************************************)
(* C23: a dropped part does not stop the assembly of its siblings.         *)
(***************************************************************************)
\* an order pseudo-part: the article number is an order name, or the
\* processing-technology marker says "no technology"
IsPseudoPart(p) ==
    \/ p.ArticleNo.present /\ IsPlaceholder(p.ArticleNo.text)
    \/ p.ProcessingTechnology = "NONE"
HasArticleNumber(p) == p.ArticleNo.present /\ p.ArticleNo.text # <<>>
HasPositiveNetCost(p) ==
    /\ p.OrderPrice.present /\ p.OrderPrice.NetcostsAPiece.present
    /\ Positive(parse_float_value(p.OrderPrice.NetcostsAPiece, RZero))
Qualifies(p) ==
    /\ p.type = "sheetmetalpart" /\ ~IsPseudoPart(p)
    /\ HasArticleNumber(p) \/ HasPositiveNetCost(p)
RecordsOf(list, p) == {k \in 1..Len(list) : list[k].part_id = p.ID}
FileRead == pc = "parts" /\ pi > Len(parts)

\* C23: when all parts of a document have been gone through, the document's
\* list holds exactly one record for each of its sheet-metal parts that is not
\* an order pseudo-part and has a non-empty article number or a positive net
\* cost, whatever parts were excluded or dropped before or after it.
C23_SiblingsAssembled ==
    FileRead =>
        \A i \in 1..Len(root.parts) :
            Qualifies(root.parts[i]) =>
                Cardinality(RecordsOf(file_summaries, root.parts[i])) = 1

\* a document gone through to its end in which a part was dropped after
\* assembly before a qualifying part and another one after it
C23_Witness ==
    /\ FileRead /\ Len(root.parts) = 3
    /\ Qualifies(root.parts[2])
    /\ \A i \in {1, 3} :
          /\ IsSheetMetalPart(root.parts[i]) /\ ~IsSkipped(root.parts[i])
          /\ ~HasUsefulData(parse_single_part(root, root.parts[i], root.name))
    /\ Len(file_summaries) = 1 /\ file_summaries[1].part_id = root.parts[2].ID

(***************************************************************************)
(* C24: the root marker and the part type.                                 *)
(***************************************************************************)
InFile == pc \in {"parts", "assembled", "derived", "complete"}
PartsWithID(d, id) == {i \in 1..Len(d.parts) : d.parts[i].ID = id}
IsCandidate(p) == p.type = "sheetmetalpart" /\ p.ProcessingTechnology # "NONE"

\* C24: the part a record is being assembled for, and the part of every record
\* in the list of the document being read, is typed as a sheet-metal part and
\* does not carry the ProcessingTechnology marker "NONE", whatever its article
\* number and net cost are.
C24_OnlySheetMetalWithTechnology ==
    /\ InPart => IsCandidate(part)
    /\ InFile =>
          \A k \in 1..Len(file_summaries) :
              \A i \in PartsWithID(root, file_summaries[k].part_id) :
                  IsCandidate(root.parts[i])

\* a document gone through to its end that has a part marked "NONE" with an
\* article number of its own and a positive net cost, a part of another type
\* with the same, and a part that gave a record: the list holds that one only
C24_Witness ==
    /\ FileRead /\ Len(file_summaries) = 1
    /\ \E i, j, k \in 1..Len(root.parts) :
          /\ root.parts[i].ProcessingTechnology = "NONE"
          /\ root.parts[i].type = "sheetmetalpart"
          /\ HasArticleNumber(root.parts[i])
          /\ ~IsPlaceholder(root.parts[i].ArticleNo.text)
          /\ HasPositiveNetCost(root.parts[i])
          /\ root.parts[j].type # "sheetmetalpart"
          /\ HasArticleNumber(root.parts[j]) /\ HasPositiveNetCost(root.parts[j])
          /\ file_summaries[1].part_id = root.parts[k].ID
          /\ k \notin {i, j}

(***************************************************************************)
(* C26: the sheet dimensions are the last two components of the sheet-id.  *)
(***************************************************************************)
HasAllocation(d) == d.nesting.present /\ d.nesting.allocation.present
Tokens(d) == Split(d.nesting.allocation.sheet_id, "x")
LastTwoNumeric(d) ==
    /\ HasAllocation(d)
    /\ Contains(d.nesting.allocation.sheet_id, <<"x">>)
    /\ IsFloatText(Tokens(d)[Len(Tokens(d)) - 1])
    /\ IsFloatText(Tokens(d)[Len(Tokens(d))])
TakenFromLastTwo(d, s) ==
    /\ s.sheet_dimensions_x = FloatOf(Tokens(d)[Len(Tokens(d)) - 1])
    /\ s.sheet_dimensions_y = FloatOf(Tokens(d)[Len(Tokens(d))])

\* C26 as stated: for every sheet-id that contains "x" and whose last two
\* components are numeric, the finished record's sheet dimensions equal those
\* two components, whatever the number of components.
C26_LastTwoTokensAnyCount ==
    (pc = "complete" /\ LastTwoNumeric(root)) => TakenFromLastTwo(root, summary)

\* C26: for every sheet-id that contains "x", splits into at least three
\* components and whose last two components are numeric, the finished record's
\* sheet_dimensions_x and sheet_dimensions_y equal the second-to-last and the
\* last component, whatever the number of components beyond that.
C26_LastTwoTokensOfThree ==
    (pc = "complete" /\ LastTwoNumeric(root) /\ Len(Tokens(root)) >= 3)
        => TakenFromLastTwo(root, summary)

\* a finished record of a document whose sheet-id has four components, the
\* first two no numbers: the dimensions are the third and the fourth
C26_Witness ==
    /\ pc = "complete" /\ LastTwoNumeric(root)
    /\ Len(Tokens(root)) = 4
    /\ ~IsFloatText(Tokens(root)[2])
    /\ summary.sheet_dimensions_x = RInt(2500)
    /\ summary.sheet_dimensions_y = RInt(1250)

(***************************************************************************)
(* C27: the two sheet dimensions are set together.                         *)
(***************************************************************************)
\* C27: in every finished record either both sheet dimensions are the last two
\* components of the sheet-id, or both are the default 0.0.
C27_NeverHalfParsed ==
    pc = "complete" =>
        \/ LastTwoNumeric(root) /\ TakenFromLastTwo(root, summary)
        \/ /\ summary.sheet_dimensions_x = RZero
           /\ summary.sheet_dimensions_y = RZero

(***************************************************************************)
(* C28: the sign of the consumption amounts.                               *)
(***************************************************************************)
NonNegative(x) == RLe(RZero, x)
\* C28: in every record of the batch or of the file being read, the power
\* consumption and the consumption of compressed air, oxygen, nitrogen and
\* argon are greater than or equal to zero.
C28_ConsumptionNonNegative ==
    \A i \in 1..Len(AllRecords) :
        /\ NonNegative(AllRecords[i].power_consumption_kwh)
        /\ NonNegative(AllRecords[i].compressed_air_consumption)
        /\ NonNegative(AllRecords[i].oxygen_consumption)
        /\ NonNegative(AllRecords[i].nitrogen_consumption)
        /\ NonNegative(AllRecords[i].argon_consumption)

(***************************************************************************)
(* C30: waste and utilization.                                             *)
(***************************************************************************)
\* C30: in every finished record, material_utilization is 100 minus
\* waste_percentage when the document has a waste value element, with waste 0
\* and utilization 100 when its text is no number; both are 0 when the
\* document has no waste value element.
C30_UtilizationFromWaste ==
    pc = "complete" =>
        IF root.waste.present
        THEN /\ summary.material_utilization =
                    RSub(RInt(100), summary.waste_percentage)
             /\ ~IsNumber(Cleaned(root.waste.text)) =>
                    /\ summary.waste_percentage = RZero
                    /\ summary.material_utilization = RInt(100)
        ELSE /\ summary.material_utilization = RZero
             /\ summary.waste_percentage = RZero

\* a finished record of a document whose waste value is a text without a
\* number: waste 0, utilization 100
C30_Witness ==
    /\ pc = "complete" /\ root.waste.present
    /\ ~IsNumber(Cleaned(root.waste.text))
    /\ root.waste.text # <<>>
    /\ summary.waste_percentage = RZero
    /\ summary.material_utilization = RInt(100)
    /\ summary.article_no # <<>>

(***************************************************************************)
(* parse_calculation_file under an error raised inside its try block       *)
(* (lines 412-443): any Exception, such as a MemoryError raised by the      *)
(* runtime while a part is assembled, reaches the handler of lines 445-447. *)
(***************************************************************************)
\* lines 445-447 with the records assembled so far returned from the handler
PartErrorKeepsRecords ==
    /\ pc \in {"parts", "assembled", "derived", "complete"}
    /\ ~(pc = "parts" /\ pi > Len(parts))
    /\ summaries' = ExtendSummaries(summaries, file_summaries)
    /\ fi' = fi + 1 /\ pc' = "files"
    /\ UNCHANGED <<file_paths, pi, summary, file_summaries>>

\* lines 445-447, 455-456: an error raised while a part of the document is
\* looked at or assembled; the file yields []
PartError ==
    /\ pc \in {"parts", "assembled", "derived", "complete"}
    /\ ~(pc = "parts" /\ pi > Len(parts))
    /\ summaries' = ExtendSummaries(summaries, <<>>)
    /\ fi' = fi + 1 /\ pc' = "files"
    /\ UNCHANGED <<file_paths, pi, summary, file_summaries>>

FaultNext == Next \/ PartError

FaultInit ==
    /\ file_paths \in SeqsUpTo(FewDocs, MaxFiles)
    /\ fi = 1 /\ pc = "files" /\ pi = 1
    /\ summary = CalculationSummary
    /\ file_summaries = <<>> /\ summaries = <<>>

FaultSpec == FaultInit /\ [][FaultNext]_vars

(***************************************************************************)
(* C29: parse_calculation_file is all-or-nothing per document.             *)
(***************************************************************************)
\* the batch's list when exactly the files of S are processed to their end
RECURSIVE SlicesOf(_, _, _)
SlicesOf(paths, S, i) ==
    IF i > Len(paths) THEN <<>>
    ELSE (IF i \in S /\ paths[i].exists
          THEN parse_calculation_file(paths[i]) ELSE <<>>)
         \o SlicesOf(paths, S, i + 1)
\* a document is left before all its parts are gone through
LeavesFileEarly ==
    /\ pc \in {"parts", "assembled", "derived", "complete"}
    /\ ~(pc = "parts" /\ pi > Len(parts))
    /\ pc' = "files"

\* C29: a document that is left on an error, at whatever part and stretch of
\* the assembly, adds nothing to the batch's list, the records of its parts
\* assembled before the error included; the list returned for a batch holds,
\* for each document, either all its records or none.
C29_AllOrNothing ==
    /\ [][LeavesFileEarly => (summaries' = summaries /\ fi' = fi + 1)]_vars
    /\ [](Done => \E S \in SUBSET (1..Len(file_paths)) :
                      summaries = SlicesOf(file_paths, S, 1))

\* a finished batch in which the second document was left on an error after
\* one of its parts had given a record: the list returned holds the records
\* of the first document only, and the batch went on to the third file
C29_Witness ==
    /\ Done /\ Len(file_paths) = 3
    /\ parse_calculation_file(file_paths[2]) # <<>>
    /\ file_summaries # <<>> /\ file_summaries[1].filename = file_paths[2].name
    /\ file_paths[3].exists /\ parse_calculation_file(file_paths[3]) = <<>>
    /\ file_paths[1].name # file_paths[2].name
    /\ summaries = parse_calculation_file(file_paths[1])
    /\ summaries # <<>>

(***************************************************************************)
(* The documents of a batch processed by independent workers: worker w     *)
(* runs parse_calculation_file(file_paths[w]) on the one parser object,    *)
(* whose only attribute (self.namespaces, line 103) no method reads or     *)
(* writes.  pc, pi, summary and file_summaries are the locals of each      *)
(* worker's call; the slices are joined in submission order.               *)
(***************************************************************************)
MaxWorkers == 2
Workers == DOMAIN file_paths
wroot(w) == file_paths[w]
wparts(w) == SheetMetalParts(wroot(w))
wpart(w) == wparts(w)[pi[w]]

\* line 454, else branch: the path does not exist
WorkerFileNotFound(w) ==
    /\ pc[w] = "files" /\ ~wroot(w).exists
    /\ file_summaries' = [file_summaries EXCEPT ![w] = <<>>]
    /\ pc' = [pc EXCEPT ![w] = "returned"]
    /\ UNCHANGED <<file_paths, fi, pi, summary, summaries>>

\* lines 413, 445-447: ET.parse raises, the call returns []
WorkerParseError(w) ==
    /\ pc[w] = "files" /\ wroot(w).exists /\ ~wroot(w).wellformed
    /\ file_summaries' = [file_summaries EXCEPT ![w] = <<>>]
    /\ pc' = [pc EXCEPT ![w] = "returned"]
    /\ UNCHANGED <<file_paths, fi, pi, summary, summaries>>

\* lines 413-420
WorkerOpenFile(w) ==
    /\ pc[w] = "files" /\ wroot(w).exists /\ wroot(w).wellformed
    /\ pc' = [pc EXCEPT ![w] = "parts"]
    /\ pi' = [pi EXCEPT ![w] = 1]
    /\ file_summaries' = [file_summaries EXCEPT ![w] = <<>>]
    /\ UNCHANGED <<file_paths, fi, summary, summaries>>

\* lines 422-434
WorkerSkipPart(w) ==
    /\ pc[w] = "parts" /\ pi[w] <= Len(wparts(w))
    /\ IsSkipped(wpart(w))
    /\ pi' = [pi EXCEPT ![w] = @ + 1]
    /\ UNCHANGED <<file_paths, fi, pc, summary, file_summaries, summaries>>

\* line 437, lines 235-374
WorkerAssemble(w) ==
    /\ pc[w] = "parts" /\ pi[w] <= Len(wparts(w))
    /\ ~IsSkipped(wpart(w))
    /\ summary' = [summary EXCEPT
                      ![w] = AssemblePart(wroot(w), wpart(w), wroot(w).name)]
    /\ pc' = [pc EXCEPT ![w] = "assembled"]
    /\ UNCHANGED <<file_paths, fi, pi, file_summaries, summaries>>

\* line 377
WorkerDerive(w) ==
    /\ pc[w] = "assembled"
    /\ summary' = [summary EXCEPT
                      ![w] = calculate_energy_and_gas_consumption(
                                 wroot(w), wpart(w), @)]
    /\ pc' = [pc EXCEPT ![w] = "derived"]
    /\ UNCHANGED <<file_paths, fi, pi, file_summaries, summaries>>

\* lines 379-408
WorkerNesting(w) ==
    /\ pc[w] = "derived"
    /\ summary' = [summary EXCEPT ![w] = NestingInfo(wroot(w), @)]
    /\ pc' = [pc EXCEPT ![w] = "complete"]
    /\ UNCHANGED <<file_paths, fi, pi, file_summaries, summaries>>

\* lines 440-441 with the list of line 416 kept in the parser object, one
\* list for all workers
WorkerEmitPartShared(w) ==
    /\ pc[w] = "complete"
    /\ HasUsefulData(summary[w])
    /\ file_summaries' = [file_summaries EXCEPT
                             ![1] = AppendSummary(@, summary[w])]
    /\ pi' = [pi EXCEPT ![w] = @ + 1]
    /\ pc' = [pc EXCEPT ![w] = "parts"]
    /\ UNCHANGED <<file_paths, fi, summary, summaries>>

\* lines 440-441: the record is appended to the call's own list (line 416)
WorkerEmitPart(w) ==
    /\ pc[w] = "complete"
    /\ HasUsefulData(summary[w])
    /\ file_summaries' = [file_summaries EXCEPT
                             ![w] = AppendSummary(@, summary[w])]
    /\ pi' = [pi EXCEPT ![w] = @ + 1]
    /\ pc' = [pc EXCEPT ![w] = "parts"]
    /\ UNCHANGED <<file_paths, fi, summary, summaries>>

\* line 440, condition false
WorkerDropPart(w) ==
    /\ pc[w] = "complete"
    /\ ~HasUsefulData(summary[w])
    /\ pi' = [pi EXCEPT ![w] = @ + 1]
    /\ pc' = [pc EXCEPT ![w] = "parts"]
    /\ UNCHANGED <<file_paths, fi, summary, file_summaries, summaries>>

\* line 443: the call returns its list
WorkerReturn(w) ==
    /\ pc[w] = "parts" /\ pi[w] > Len(wparts(w))
    /\ pc' = [pc EXCEPT ![w] = "returned"]
    /\ UNCHANGED <<file_paths, fi, pi, summary, file_summaries, summaries>>

\* lines 455-456: the slice of the next file in submission order is added
Join ==
    /\ fi <= Len(file_paths) /\ pc[fi] = "returned"
    /\ summaries' = ExtendSummaries(summaries, file_summaries[fi])
    /\ fi' = fi + 1
    /\ UNCHANGED <<file_paths, pc, pi, summary, file_summaries>>

ParNext ==
    \/ \E w \in Workers : WorkerFileNotFound(w)
    \/ \E w \in Workers : WorkerParseError(w)
    \/ \E w \in Workers : WorkerOpenFile(w)
    \/ \E w \in Workers : WorkerSkipPart(w)
    \/ \E w \in Workers : WorkerAssemble(w)
    \/ \E w \in Workers : WorkerDerive(w)
    \/ \E w \in Workers : WorkerNesting(w)
    \/ \E w \in Workers : WorkerEmitPart(w)
    \/ \E w \in Workers : WorkerDropPart(w)
    \/ \E w \in Workers : WorkerReturn(w)
    \/ Join

ParInit ==
    /\ file_paths \in SeqsUpTo(FewDocs, MaxWorkers)
    /\ fi = 1
    /\ pc = [w \in Workers |-> "files"]
    /\ pi = [w \in Workers |-> 1]
    /\ summary = [w \in Workers |-> CalculationSummary]
    /\ file_summaries = [w \in Workers |-> <<>>]
    /\ summaries = <<>>

ParSpec == ParInit /\ [][ParNext]_vars

(***************************************************************************)
(* C25: per-document processing crosses no document boundary.              *)
(***************************************************************************)
Joined == fi > Len(file_paths)
SliceAlone(d) == IF d.exists THEN parse_calculation_file(d) ELSE <<>>

\* C25: in every interleaving of the workers, the slice a worker returns is
\* the one its document yields when processed alone, and the slices joined in
\* submission order are the list sequential parse_multiple_files returns.
C25_WorkersGiveSequentialList ==
    /\ \A w \in Workers :
          pc[w] = "returned" => file_summaries[w] = SliceAlone(file_paths[w])
    /\ \A k \in 1..Len(file_paths) :
          fi > k => SubSeq(summaries, 1, Len(parse_multiple_files(SubSeq(file_paths, 1, k))))
                        = parse_multiple_files(SubSeq(file_paths, 1, k))
    /\ Joined => summaries = parse_multiple_files(file_paths)

\* two workers on two different documents, each with records of its own, have
\* returned and their slices are joined
C25_Witness ==
    /\ Joined /\ Len(file_paths) = 2
    /\ file_paths[1].name # file_paths[2].name
    /\ file_summaries[1] # <<>> /\ file_summaries[2] # <<>>
    /\ file_summaries[1][1].filename = file_paths[1].name
    /\ file_summaries[2][1].filename = file_paths[2].name
    /\ summaries = file_summaries[1] \o file_summaries[2]

====
